---- MODULE Spec2Model ----
(***************************************************************************)
(* Session / conversation correlation, message-pair deduplication,         *)
(* identifier reconciliation and response caching of the Svorum strax      *)
(* chatbot API (sessionManager.js, messageProcessor.js, dataModels.js,     *)
(* database.js and the /chat handler of the server).                       *)
(*                                                                         *)
(* Time is Date.now() in milliseconds.  The exported asynchronous          *)
(* functions are modelled as one action per completed call; a /chat        *)
(* request is the lookup, the completion and the scheduled continuation.   *)
(***************************************************************************)
EXTENDS Integers, Sequences, FiniteSets, TLC

(***************************************************************************)
(* Bounds of the model (not program constants).                            *)
(***************************************************************************)
MaxTicks == 3
MaxSessionCalls == 3
MaxRestarts == 1
MaxRand == 1

(***************************************************************************)
(* Program constants.                                                      *)
(***************************************************************************)
SESSION_TIMEOUT == 15 * 60 * 1000

Minutes(n) == n * 60 * 1000

\* Clock steps the environment may take between two calls.
SessionSteps == {Minutes(5), Minutes(16)}

(***************************************************************************)
(* Values.  A session token is a triple <<text, time, random>>: a token    *)
(* supplied by the client is <<name, 0, 0>>, a synthesized one is          *)
(* <<"session", Date.now(), random>>.  A conversation id                   *)
(* `${token}_${Date.now()}` is the pair <<token, time>>.                   *)
(***************************************************************************)
ClientTokens == {<<"s1", 0, 0>>, <<"s2", 0, 0>>}
NullToken == <<"", 0, 0>>
NoConv == <<NullToken, -1>>
Rands == 1..MaxRand

VARIABLES
  now,            \* Date.now()
  ticks,          \* clock steps taken so far
  restarts,       \* process restarts so far
  sessionCache,   \* global.sessionCache : token -> session object
  globalSessions, \* the globalSessions collection, in insertion order
  mongoConnected, \* global.mongoConnection.client && .db are set
  sessionCalls,   \* completed getOrCreateSession calls
  returned,       \* history: token -> what the latest call for it returned
  lastCall,       \* history: the latest completed getOrCreateSession call
  scenario,       \* history: progress of the run along the s1 trace
  processedMessages,     \* the Set processedMessages, in insertion order
  analyticsSentMessages, \* the Map analyticsSentMessages
  conversations,         \* the conversations collection
  message_id_mappings,   \* the message_id_mappings collection
  message_feedback,      \* the message_feedback collection
  uuidSeq,               \* uuidv4() values drawn so far
  pgSeq,                 \* ids issued by the analytics service so far
  posts,                 \* POSTs made to /api/conversations
  pairCalls,      \* completed processMessagePair calls
  pairLog,        \* history: per conversation and texts, calls and effects
  lastPair,       \* history: the latest completed processMessagePair call
  forwardLog,     \* history: signature -> remote id its forward obtained
  opCalls,        \* completed mapping and feedback calls
  lastOp,         \* history: the latest completed mapping or feedback call
  responseCache,  \* the Map responseCache : key -> entry object
  entrySeq,       \* entry objects created so far
  sessions,       \* the Map sessions : token -> chat history
  inflight,       \* /chat requests past the cache lookup, awaiting the model
  pending,        \* continuations scheduled with setImmediate, not yet run
  chatCalls,      \* completed /chat requests
  backgroundRuns, \* continuations run so far
  sweeps,         \* cache sweeps run so far
  stored,         \* history: key -> the entry last put under the key
  askedFor,       \* history: key -> the request whose reply was put under it
  lastChat,       \* history: the latest completed /chat request
  lastNorm,       \* history: the latest normalizeConversation call
  lastMessage,    \* history: the latest normalizeMessage call
  lastBroadcast,  \* history: the latest completed broadcastConversation call
  building,       \* processMessagePair calls suspended at the await of line 116
  suspended,      \* getOrCreateSession calls suspended at their first await
  sessionLog,     \* history: the completed calls of the split session actions
  finding,        \* getOrCreateSession calls suspended after their findOne
  pairing,        \* processMessagePair calls suspended at the await of line 45
  gateLog,        \* history: the calls that have come to the dedup gate
  saving,         \* saveConversationToMongoDB calls suspended after findOne
  legacy,         \* requests of the messages-array /chat handler in flight
  turnSeq,        \* requests the messages-array handler has accepted
  turns,          \* history: turn -> what has happened to it, in order
  MONGODB_URI,    \* process.env.MONGODB_URI: "valid", "malformed" or "missing"
  mongoConnection,\* global.mongoConnection: client, db, connecting (0 is null)
  attempts,       \* the promises of the connection attempts, in order
  microtasks,     \* the promise reaction jobs queued, first in first out
  callers         \* the connectToDatabase calls, in order

envVars == <<now, ticks, restarts>>

sessionVars == <<sessionCache, globalSessions, mongoConnected, sessionCalls,
                 returned, lastCall, scenario>>

sessionHistory == <<sessionCalls, returned, lastCall, scenario>>

processorVars == <<processedMessages, analyticsSentMessages, conversations,
                   message_id_mappings, message_feedback, uuidSeq, pgSeq,
                   posts>>

pairHistory == <<pairCalls, pairLog, lastPair, forwardLog>>

opHistory == <<opCalls, lastOp>>

chatVars == <<responseCache, entrySeq, sessions, inflight, pending, chatCalls,
              backgroundRuns, sweeps, stored, askedFor, lastChat>>

burstVars == <<suspended, sessionLog>>

moreVars == <<finding, pairing, gateLog, saving>>

normVars == <<lastNorm, lastMessage>>

connVars == <<MONGODB_URI, mongoConnection, attempts, microtasks, callers>>

probeVars == <<normVars, connVars, lastBroadcast, building, burstVars,
               moreVars>>

serveVars == <<legacy, turnSeq, turns>>

vars == <<envVars, sessionVars, processorVars, pairHistory, opHistory,
          chatVars, probeVars, serveVars>>

(***************************************************************************)
(* sessionManager.js                                                       *)
(***************************************************************************)

\* sessionId || `session_${Date.now()}_${Math.random()...}`
FrontendSessionIds(sessionId, t) ==
  IF sessionId = NullToken
    THEN {<<"session", t, r>> : r \in Rands}
    ELSE {sessionId}

\* `${frontendSessionId}_${Date.now()}`
NewConversationId(fsid, t) == <<fsid, t>>

\* Map.set
MapSet(m, k, v) == [x \in (DOMAIN m) \cup {k} |-> IF x = k THEN v ELSE m[x]]

\* connectToDatabase: the cached connection is returned when there is one;
\* otherwise a connection attempt is made, which succeeds or throws.
\* The result is the value of mongoConnected afterwards; the call threw
\* exactly when it is FALSE.
ConnectResults(conn) == IF conn THEN {TRUE} ELSE {TRUE, FALSE}

\* The object literals of getOrCreateSession.  A key the literal does not
\* have reads as undefined: isNewSession FALSE, previousConversationId
\* NoConv.
SessionObject(fsid, conv, started, t, isNew) ==
  [sessionId |-> fsid, conversationId |-> conv, startedAt |-> started,
   lastActivity |-> t, isNewSession |-> isNew,
   previousConversationId |-> NoConv]

SessionRecord(fsid, conv, t, prev, isTimeout) ==
  [frontendSessionId |-> fsid, sessionId |-> fsid, conversationId |-> conv,
   startedAt |-> t, lastActivity |-> t, previousConversationId |-> prev,
   isTimeoutSession |-> isTimeout]

\* globalSessionCollection.findOne({frontendSessionId}): the documents
\* the call can return.  Without a sort MongoDB returns a matching document
\* in natural order; which one that is, is left open here.
FindSessions(coll, fsid) ==
  {i \in 1..Len(coll) : coll[i].frontendSessionId = fsid}

\* collection.updateOne({conversationId}, {$set: {lastActivity}}): the
\* collections that can result (one matching document is updated).
UpdateActivity(coll, conv, t) ==
  LET idx == {i \in 1..Len(coll) : coll[i].conversationId = conv}
  IN  IF idx = {} THEN {coll}
      ELSE {[coll EXCEPT ![i].lastActivity = t] : i \in idx}

Outcome(s, c, st, conn, path, failed) ==
  [session |-> s, cache |-> c, store |-> st, conn |-> conn, path |-> path,
   failed |-> failed]

\* Mutation of TimedOut: a session idle for exactly SESSION_TIMEOUT is
\* rolled over too.
TimedOutInclusive(t, lastActivity) == t - lastActivity >= SESSION_TIMEOUT

\* The timeout test of lines 35 and 144.
TimedOut(t, lastActivity) == t - lastActivity > SESSION_TIMEOUT

\* Lines 28-100: the token is in the session cache.
CachedOutcomes(fsid, cache, store, conn, t) ==
  LET cached == cache[fsid]
  IN  IF TimedOut(t, cached.lastActivity)
      THEN LET conv == NewConversationId(fsid, t)
               s    == SessionObject(fsid, conv, t, t, TRUE)
               c    == MapSet(cache, fsid, s)
               rec  == SessionRecord(fsid, conv, t, cached.conversationId, TRUE)
           IN  { Outcome(s, c, store, FALSE, "cache_rollover", {"connect"}) :
                    x \in {y \in ConnectResults(conn) : ~y} }
               \cup
               { Outcome(s, c, Append(store, rec), TRUE, "cache_rollover", {}),
                 Outcome(s, c, store, TRUE, "cache_rollover", {"insert"}) }
      ELSE LET s == [cached EXCEPT !.lastActivity = t]
               c == MapSet(cache, fsid, s)
           IN  { Outcome(s, c, store, FALSE, "cache_reuse", {"connect"}) :
                    x \in {y \in ConnectResults(conn) : ~y} }
               \cup
               { Outcome(s, c, st, TRUE, "cache_reuse", {}) :
                    st \in UpdateActivity(store, s.conversationId, t) }
               \cup
               { Outcome(s, c, store, TRUE, "cache_reuse", {"update"}) }

\* Lines 139-208: findOne returned the document existing.
FoundOutcomes(fsid, existing, cache, store, t) ==
  IF TimedOut(t, existing.lastActivity)
  THEN LET conv == NewConversationId(fsid, t)
           rec  == SessionRecord(fsid, conv, t, existing.conversationId, TRUE)
           s    == SessionObject(fsid, conv, t, t, TRUE)
           c    == MapSet(cache, fsid, s)
       IN  { Outcome(s, c, Append(store, rec), TRUE, "db_rollover", {}),
             Outcome(s, c, store, TRUE, "db_rollover", {"insert"}) }
  ELSE LET s == SessionObject(existing.sessionId, existing.conversationId,
                              existing.startedAt, t, FALSE)
           c == MapSet(cache, fsid, s)
       IN  { Outcome(s, c, st, TRUE, "db_reuse", {}) :
                st \in UpdateActivity(store, existing.conversationId, t) }
           \cup
           { Outcome(s, c, store, TRUE, "db_reuse", {"update"}) }

\* Lines 210-243: no session document was found (or the find failed).
CreatedOutcomes(fsid, cache, store, t, failed) ==
  LET conv == NewConversationId(fsid, t)
      rec  == SessionRecord(fsid, conv, t, NoConv, FALSE)
      s    == SessionObject(fsid, conv, t, t, TRUE)
      c    == MapSet(cache, fsid, s)
  IN  { Outcome(s, c, Append(store, rec), TRUE, "created", failed),
        Outcome(s, c, store, TRUE, "created", failed \cup {"insert"}) }

\* Mutation of TempSessionOutcome: the temporary session is returned but
\* not put into the session cache.
TempSessionNotCached(fsid, cache, store, t) ==
  LET temp == SessionObject(fsid, NewConversationId(fsid, t), t, t, FALSE)
  IN  Outcome(temp, cache, store, FALSE, "temp", {"connect"})

\* Lines 107-121: connectToDatabase threw; a temporary session is cached.
TempSessionOutcome(fsid, cache, store, t) ==
  LET temp == SessionObject(fsid, NewConversationId(fsid, t), t, t, FALSE)
  IN  Outcome(temp, MapSet(cache, fsid, temp), store, FALSE, "temp",
              {"connect"})

\* Lines 102-243: the token is not in the session cache.
UncachedOutcomes(fsid, cache, store, conn, t) ==
  LET found == FindSessions(store, fsid)
  IN  { TempSessionOutcome(fsid, cache, store, t) :
           x \in {y \in ConnectResults(conn) : ~y} }
      \cup
      \* findOne threw: existingSession stays null
      CreatedOutcomes(fsid, cache, store, t, {"find"})
      \cup
      ( IF found = {}
          THEN CreatedOutcomes(fsid, cache, store, t, {})
          ELSE UNION { FoundOutcomes(fsid, store[i], cache, store, t) :
                         i \in found } )

\* getOrCreateSession(sessionId), lines 20-243, called at time t: every
\* result the call can have, with the cache, the collection and the
\* connection it leaves behind.
getOrCreateSession(sessionId, cache, store, conn, t) ==
  UNION { IF fsid \in DOMAIN cache
            THEN CachedOutcomes(fsid, cache, store, conn, t)
            ELSE UncachedOutcomes(fsid, cache, store, conn, t) :
          fsid \in FrontendSessionIds(sessionId, t) }

(***************************************************************************)
(* dataModels.js.  A string is a sequence of characters; null/undefined    *)
(* is NullText.  A message id is a triple <<prefix, time, number>>.        *)
(***************************************************************************)
NullText == <<"NULL">>
NoId == <<"", 0, 0>>
NoTime == -1

\* !x for a string-or-null x
Falsy(x) == x = NullText \/ x = <<>>

\* x.substring(0, n)
Substring(x, n) == SubSeq(x, 1, IF Len(x) < n THEN Len(x) ELSE n)

\* A message object; a key that is absent has the value "", NoId, NoTime
\* or NullText.
Message(id, content, role, sender, type, timestamp, language) ==
  [id |-> id, content |-> content, role |-> role, sender |-> sender,
   type |-> type, timestamp |-> timestamp, language |-> language,
   postgresqlId |-> NoId, defaultRole |-> ""]

\* normalizeMessage(message), called at time t with random suffix r.
normalizeMessage(m, t, r) ==
  LET role == IF m.role = "user" \/ m.sender = "user" \/ m.type = "user"
                THEN "user"
              ELSE IF m.role = "assistant" \/ m.sender = "bot" \/ m.type = "bot"
                THEN "assistant"
              ELSE IF m.defaultRole # "" THEN m.defaultRole ELSE "user"
  IN  [id |-> IF m.id # NoId THEN m.id ELSE <<"msg", t, r>>,
       content |-> IF Falsy(m.content) THEN <<>> ELSE m.content,
       role |-> role,
       sender |-> "",
       type |-> IF role = "user" THEN "user" ELSE "bot",
       timestamp |-> IF m.timestamp # NoTime THEN m.timestamp ELSE t,
       language |-> IF m.language # "" THEN m.language ELSE "en",
       postgresqlId |-> m.postgresqlId,
       defaultRole |-> ""]

RECURSIVE SortByTimestampUnstable(_)
RECURSIVE SortByTimestamp(_)

\* Mutation of SortByTimestamp: an element is put before the elements of
\* equal timestamp.
SortByTimestampUnstable(ms) ==
  IF Len(ms) <= 1 THEN ms
  ELSE LET front == SortByTimestampUnstable(SubSeq(ms, 1, Len(ms) - 1))
           x     == ms[Len(ms)]
           k     == Cardinality({i \in 1..Len(front) :
                                   front[i].timestamp < x.timestamp})
       IN  SubSeq(front, 1, k) \o <<x>> \o SubSeq(front, k + 1, Len(front))

\* Array.prototype.sort with the comparator a.timestamp - b.timestamp: a
\* stable sort, as insertion of each element after the elements that are
\* not greater.
SortByTimestamp(ms) ==
  IF Len(ms) <= 1 THEN ms
  ELSE LET front == SortByTimestamp(SubSeq(ms, 1, Len(ms) - 1))
           x     == ms[Len(ms)]
           k     == Cardinality({i \in 1..Len(front) :
                                   front[i].timestamp <= x.timestamp})
       IN  SubSeq(front, 1, k) \o <<x>> \o SubSeq(front, k + 1, Len(front))

\* A raw conversation; hasMessages is Array.isArray(conversation.messages).
\* clientId, topic and status are passed through and left out.
Conversation(id, sessionId, hasMessages, messages, userMessage, botResponse, startedAt, endedAt, language) ==
  [id |-> id, sessionId |-> sessionId, hasMessages |-> hasMessages,
   messages |-> messages, userMessage |-> userMessage,
   botResponse |-> botResponse, startedAt |-> startedAt,
   endedAt |-> endedAt, language |-> language]

\* The timestamp of the legacy botResponse, equal to startedAt.
PairedTimestampSame(started) == started

\* Line 67: new Date(new Date(startedAt).getTime() + 1)
PairedTimestamp(started) == started + 1

\* normalizeConversation(conversation), called at time t with random r.
normalizeConversation(c, t, r) ==
  LET id      == IF c.id # NoConv THEN c.id ELSE <<<<"conv", t, r>>, t>>
      started == IF c.startedAt # NoTime THEN c.startedAt ELSE t
      listed  == IF c.hasMessages
                   THEN [i \in 1..Len(c.messages) |->
                           normalizeMessage(c.messages[i], t, r)]
                   ELSE <<>>
      withUser ==
        IF ~ Falsy(c.userMessage)
           /\ ~ \E i \in 1..Len(listed) : listed[i].role = "user"
          THEN Append(listed,
                 normalizeMessage(Message(NoId, c.userMessage, "user", "", "",
                                          started, ""), t, r))
          ELSE listed
      withBot ==
        IF ~ Falsy(c.botResponse)
           /\ ~ \E i \in 1..Len(withUser) : withUser[i].role = "assistant"
          THEN Append(withUser,
                 normalizeMessage(Message(NoId, c.botResponse, "assistant", "",
                                          "", PairedTimestamp(started), ""),
                                  t, r))
          ELSE withUser
  IN  [id |-> id,
       sessionId |-> IF c.sessionId # NullToken THEN c.sessionId ELSE id,
       messages |-> SortByTimestamp(withBot),
       startedAt |-> started,
       endedAt |-> IF c.endedAt # NoTime THEN c.endedAt ELSE t,
       language |-> IF c.language # "" THEN c.language ELSE "en"]

(***************************************************************************)
(* messageProcessor.js.  The operators take the state the call reads and   *)
(* writes as a record W:                                                   *)
(*   cache, store, conn   session cache, globalSessions, connection        *)
(*   processed            processedMessages, in insertion order            *)
(*   sent                 analyticsSentMessages                            *)
(*   convs                the conversations collection                     *)
(*   maps                 the message_id_mappings collection               *)
(*   feedback             the message_feedback collection                  *)
(*   uuid                 number of uuidv4() values drawn                  *)
(*   pg                   number of ids issued by the analytics service    *)
(*   posts                the POSTs made to /api/conversations             *)
(* and yield every result the call can have.                               *)
(***************************************************************************)
PROCESSED_LIMIT == 1000
PROCESSED_DROP == 500
SENT_LIMIT == 500
ONE_DAY == 24 * 60 * 60 * 1000
USER_PREFIX == 40
BOT_PREFIX == 40
ANALYTICS_PREFIX == 50

\* The first id the analytics service issues lies above the ids callers
\* of createMessageIdMapping make up.
PgBase == 100
PgId(n) == <<"pg", 0, PgBase + n>>

Range(q) == {q[i] : i \in 1..Len(q)}

\* saveConversationToMongoDB(conversationData), lines 146-191.
saveConversationToMongoDB(conv, W, t) ==
  LET found == {i \in 1..Len(W.convs) : W.convs[i].id = conv.id}
      up    == [W EXCEPT !.conn = TRUE]
      doc   == [id |-> conv.id, sessionId |-> conv.sessionId,
                messages |-> conv.messages, startedAt |-> conv.startedAt,
                endedAt |-> conv.endedAt, language |-> conv.language,
                createdAt |-> t, lastActivity |-> t]
  IN  { [world |-> [W EXCEPT !.conn = FALSE], saved |-> FALSE] :
           x \in {y \in ConnectResults(W.conn) : ~y} }
      \cup
      \* findOne, updateOne or insertOne threw
      { [world |-> up, saved |-> FALSE] }
      \cup
      ( IF found # {}
          THEN { [world |-> [up EXCEPT
                               !.convs[i].messages = @ \o conv.messages,
                               !.convs[i].endedAt = conv.endedAt,
                               !.convs[i].lastActivity = t],
                  saved |-> TRUE] : i \in found }
          ELSE { [world |-> [up EXCEPT !.convs = Append(@, doc)],
                  saved |-> TRUE] } )

IsBotMessage(m) == m.role = "assistant" \/ m.type = "bot"

\* The signature of lines 206-208 and 284-286.
AnalyticsSignature(conv) ==
  LET bots == SelectSeq(conv.messages, IsBotMessage)
  IN  [i \in 1..Len(bots) |->
         <<Substring(bots[i].content, ANALYTICS_PREFIX), bots[i].timestamp>>]

AnalyticsResult(success, pgId, dedup) ==
  [success |-> success, postgresqlId |-> pgId, deduplicated |-> dedup]

\* sendConversationToAnalytics was not reached.
NoForward == AnalyticsResult(FALSE, NoId, FALSE)

\* Lines 288-301: record the signature, then sweep when over the limit.
RecordSent(sent, sig, pgId, t) ==
  LET added == MapSet(sent, sig, [timestamp |-> t, postgresqlId |-> pgId])
  IN  IF Cardinality(DOMAIN added) > SENT_LIMIT
        THEN [k \in {x \in DOMAIN added : ~ (added[x].timestamp < t - ONE_DAY)}
                |-> added[k]]
        ELSE added

\* The postgresqlId of the last bot message among the first k messages.
RECURSIVE BotPgId(_, _, _)
BotPgId(conv, base, k) ==
  IF k = 0 THEN NoId
  ELSE IF IsBotMessage(conv.messages[k]) THEN PgId(base + k)
  ELSE BotPgId(conv, base, k - 1)

\* Mutation of ForwardFailed: the failure reports the id the service would
\* have issued next.
ForwardFailedWithId(pg) == AnalyticsResult(FALSE, PgId(pg + 1), FALSE)

\* Lines 313-323: the fetch threw or the response was not ok.
ForwardFailed(pg) == AnalyticsResult(FALSE, NoId, FALSE)

\* Mutation of PreviouslySent: the forwarding gate never matches.
NeverPreviouslySent(sent, sig) == FALSE

\* Lines 202-213: there are bot messages and their signature is in the map.
PreviouslySent(sent, sig) == Len(sig) > 0 /\ sig \in DOMAIN sent

\* sendConversationToAnalytics(conversationData), lines 199-324.
sendConversationToAnalytics(conv, W, t) ==
  LET sig    == AnalyticsSignature(conv)
      n      == Len(conv.messages)
      post   == [id |-> conv.id,
                 messages |-> [i \in 1..n |-> conv.messages[i].id]]
      posted == [W EXCEPT !.posts = Append(@, post)]
      issued == [posted EXCEPT !.pg = @ + n]
      mapping(i) == [mongodbId |-> conv.messages[i].id,
                     postgresqlId |-> PgId(W.pg + i)]
      inserted(k) == [i \in 1..k |-> mapping(i)]
  IN  IF PreviouslySent(W.sent, sig)
      THEN { [world |-> W,
              result |-> AnalyticsResult(TRUE, W.sent[sig].postgresqlId, TRUE),
              posted |-> FALSE, how |-> "deduplicated"] }
      ELSE \* fetch threw, or the response was not ok
           { [world |-> posted, result |-> ForwardFailed(W.pg),
              posted |-> TRUE, how |-> "failed"] }
           \cup
           \* ok, but json() threw or the body has no messages array
           { [world |-> posted, result |-> AnalyticsResult(TRUE, NoId, FALSE),
              posted |-> TRUE, how |-> "unparseable"] }
           \cup
           \* ok with a messages array, connectToDatabase threw
           { [world |-> [issued EXCEPT !.conn = FALSE],
              result |-> AnalyticsResult(TRUE, NoId, FALSE), posted |-> TRUE,
              how |-> "connect"] :
                x \in {y \in ConnectResults(W.conn) : ~y} }
           \cup
           \* the insertOne of mapping k threw
           { [world |-> [issued EXCEPT !.conn = TRUE,
                                       !.maps = @ \o inserted(k - 1)],
              result |-> AnalyticsResult(TRUE, NoId, FALSE), posted |-> TRUE,
              how |-> "insert"] :
                k \in 1..n }
           \cup
           \* every mapping stored
           { [world |-> [issued EXCEPT
                           !.conn = TRUE,
                           !.maps = @ \o inserted(n),
                           !.sent = IF Len(sig) > 0
                                      THEN RecordSent(@, sig,
                                             BotPgId(conv, W.pg, n), t)
                                      ELSE @],
              result |-> AnalyticsResult(TRUE, BotPgId(conv, W.pg, n), FALSE),
              posted |-> TRUE, how |-> "stored"] }

PairResult(success, error, conv, userId, botId, pgId) ==
  [success |-> success, error |-> error, conversationId |-> conv,
   userMessageId |-> userId, botMessageId |-> botId, postgresqlId |-> pgId]

PairFailure(error) == PairResult(FALSE, error, NoConv, NoId, NoId, NoId)

\* Mutation of IsDuplicate: the gate lets every pair through.
NeverDuplicate(processed, signature) == FALSE

\* Lines 49-59: the dedup gate.
IsDuplicate(processed, signature) == signature \in Range(processed)

\* Mutation of RecordProcessed: the newest entries are dropped, not the
\* oldest.
RecordProcessedNewest(processed, signature) ==
  LET added == Append(processed, signature)
  IN  IF Len(added) > PROCESSED_LIMIT
        THEN SubSeq(added, 1, Len(added) - PROCESSED_DROP)
        ELSE added

\* Lines 61-68: record the signature, drop the oldest when over the limit.
RecordProcessed(processed, signature) ==
  LET added == Append(processed, signature)
  IN  IF Len(added) > PROCESSED_LIMIT
        THEN SubSeq(added, PROCESSED_DROP + 1, Len(added))
        ELSE added

\* Mutation of BotTimestamp: the assistant message is stamped like the
\* user message.
BotTimestampSame(t) == t

\* Line 91: new Date(Date.now() + 1), 1 ms later for ordering.
BotTimestamp(t) == t + 1

\* Lines 70-105: the two messages and the conversation built from them.
BuiltPair(userMessage, botResponse, language, o, W, t) ==
  LET userId == <<"user-msg", t, W.uuid + 1>>
      botId  == <<"bot-msg", t + 1, W.uuid + 2>>
      lang   == IF language # "" THEN language ELSE "en"
      um     == normalizeMessage(
                  Message(userId, userMessage, "user", "user", "", t, lang),
                  t, 0)
      bm     == normalizeMessage(
                  Message(botId, botResponse, "assistant", "bot", "",
                          BotTimestamp(t), lang), t, 0)
  IN  [userId |-> userId, botId |-> botId,
       conv |-> normalizeConversation(
                  Conversation(o.session.conversationId, o.session.sessionId,
                               TRUE, <<um, bm>>, NullText, NullText,
                               o.session.startedAt, t, lang), t, 0)]

\* Lines 61-128: the pair passed the gate, o is the resolved session.
AcceptedOutcomes(userMessage, botResponse, language, o, W, t, signature) ==
  LET built  == BuiltPair(userMessage, botResponse, language, o, W, t)
      userId == built.userId
      botId  == built.botId
      conv   == built.conv
      W1     == [W EXCEPT !.processed = RecordProcessed(@, signature),
                          !.uuid = @ + 2]
  IN  UNION { { [world |-> an.world,
                 result |-> PairResult(TRUE, "", o.session.conversationId,
                                       userId, botId, an.result.postgresqlId),
                 conv |-> o.session.conversationId,
                 saved |-> sv.saved, posted |-> an.posted,
                 sig |-> AnalyticsSignature(conv), forward |-> an.result,
                 how |-> an.how, afterSave |-> sv.world.convs,
                 built |-> conv.messages] :
                  an \in sendConversationToAnalytics(conv, sv.world, t) } :
              sv \in saveConversationToMongoDB(conv, W1, t) }

\* processMessagePair(userMessage, botResponse, {sessionId, language}),
\* lines 24-138, called at time t.
processMessagePair(userMessage, botResponse, sessionId, language, W, t) ==
  IF userMessage = NullText \/ botResponse = NullText
    \* line 28: substring of null throws, caught at line 129
    THEN { [world |-> W, result |-> PairFailure("processing_error"),
            conv |-> NoConv, saved |-> FALSE, posted |-> FALSE,
            sig |-> <<>>, forward |-> NoForward, how |-> "none",
            afterSave |-> W.convs, built |-> <<>>] }
  ELSE IF Falsy(userMessage) \/ Falsy(botResponse)
    THEN { [world |-> W, result |-> PairFailure("incomplete_message_pair"),
            conv |-> NoConv, saved |-> FALSE, posted |-> FALSE,
            sig |-> <<>>, forward |-> NoForward, how |-> "none",
            afterSave |-> W.convs, built |-> <<>>] }
  ELSE UNION {
    LET W0 == [W EXCEPT !.cache = o.cache, !.store = o.store,
                        !.conn = o.conn]
        signature == <<o.session.conversationId,
                       Substring(userMessage, USER_PREFIX),
                       Substring(botResponse, BOT_PREFIX)>>
    IN  IF IsDuplicate(W.processed, signature)
          THEN { [world |-> W0, result |-> PairFailure("duplicate_message"),
                  conv |-> o.session.conversationId,
                  saved |-> FALSE, posted |-> FALSE,
                  sig |-> <<>>, forward |-> NoForward, how |-> "none",
                  afterSave |-> W0.convs, built |-> <<>>] }
          ELSE AcceptedOutcomes(userMessage, botResponse, language, o, W0, t,
                                signature) :
    o \in getOrCreateSession(sessionId, W.cache, W.store, W.conn, t) }

NoMapping == [mongodbId |-> NoId, postgresqlId |-> NoId]

MappingResult(success, updated, mapping) ==
  [success |-> success, updated |-> updated, mapping |-> mapping]

\* createMessageIdMapping(mongodbId, postgresqlId), lines 489-561.
createMessageIdMapping(mongodbId, postgresqlId, W) ==
  LET mid   == IF mongodbId = NoId THEN <<"mongo", 0, W.uuid + 1>>
               ELSE mongodbId
      pid   == IF postgresqlId = NoId THEN <<"pg-uuid", 0, W.uuid + 2>>
               ELSE postgresqlId
      W1    == [W EXCEPT !.uuid = @ + (IF mongodbId = NoId THEN 1 ELSE 0)
                                    + (IF postgresqlId = NoId THEN 1 ELSE 0)]
      up    == [W1 EXCEPT !.conn = TRUE]
      m     == [mongodbId |-> mid, postgresqlId |-> pid]
      found == {i \in 1..Len(W.maps) :
                  W.maps[i].mongodbId = mid \/ W.maps[i].postgresqlId = pid}
  IN  { [world |-> [W1 EXCEPT !.conn = FALSE],
         result |-> MappingResult(FALSE, FALSE, NoMapping)] :
           x \in {y \in ConnectResults(W.conn) : ~y} }
      \cup
      \* findOne, updateOne or insertOne threw
      { [world |-> up, result |-> MappingResult(FALSE, FALSE, NoMapping)] }
      \cup
      ( IF found # {}
          THEN { [world |-> [up EXCEPT !.maps[i] = m],
                  result |-> MappingResult(TRUE, TRUE, m)] : i \in found }
          ELSE { [world |-> [up EXCEPT !.maps = Append(@, m)],
                  result |-> MappingResult(TRUE, FALSE, m)] } )

\* Lines 414-416: the mappings findOne({mongodbId: messageId}) can return.
SubmitLookup(maps, messageId) ==
  LET found == {i \in 1..Len(maps) : maps[i].mongodbId = messageId}
  IN  IF found = {} THEN {NoMapping} ELSE {maps[i] : i \in found}

\* Lines 340-345: the mappings findOne({$or: [{mongodbId}, {postgresqlId}]})
\* can return.
EitherLookup(maps, messageId) ==
  LET found == {i \in 1..Len(maps) : maps[i].mongodbId = messageId
                                        \/ maps[i].postgresqlId = messageId}
  IN  IF found = {} THEN {NoMapping} ELSE {maps[i] : i \in found}

FeedbackResult(success, messageId, pgId) ==
  [success |-> success, messageId |-> messageId, postgresqlId |-> pgId]

ForwardOutcomes == {"ok", "not_ok", "threw"}

\* Mutation of FeedbackSuccess: a feedback that could not be forwarded is
\* reported as failed.
FeedbackSuccessIfForwarded(forward) == forward = "ok"

\* Lines 436-470: whatever the forward to /api/public-feedback does, the
\* function goes on to return success: true.
FeedbackSuccess(forward) == TRUE

\* submitMessageFeedback(messageId, isPositive), lines 406-479.
submitMessageFeedback(messageId, isPositive, W) ==
  LET up == [W EXCEPT !.conn = TRUE]
  IN  { [world |-> [W EXCEPT !.conn = FALSE],
         result |-> FeedbackResult(FALSE, NoId, NoId),
         mapping |-> NoMapping, forward |-> "none", storage |-> "failed"] :
           x \in {y \in ConnectResults(W.conn) : ~y} }
      \cup
      \* findOne or insertOne threw
      { [world |-> up, result |-> FeedbackResult(FALSE, NoId, NoId),
         mapping |-> NoMapping, forward |-> "none", storage |-> "failed"] }
      \cup
      { [world |-> [up EXCEPT !.feedback =
                      Append(@, [messageId |-> messageId,
                                 postgresqlId |-> mp.postgresqlId,
                                 isPositive |-> isPositive])],
         result |-> FeedbackResult(FeedbackSuccess(f), messageId,
                                   mp.postgresqlId),
         mapping |-> mp, forward |-> f, storage |-> "ok"] :
           mp \in SubmitLookup(W.maps, messageId), f \in ForwardOutcomes }

\* getMessageFeedback(messageId), lines 332-395.  The result is the rating
\* found ("positive", "negative") or "null".
getMessageFeedback(messageId, W) ==
  LET up == [W EXCEPT !.conn = TRUE]
      rating(fb) == IF fb.isPositive THEN "positive" ELSE "negative"
  IN  { [world |-> [W EXCEPT !.conn = FALSE], result |-> "null",
         mapping |-> NoMapping, storage |-> "failed"] :
           x \in {y \in ConnectResults(W.conn) : ~y} }
      \cup
      \* the first findOne threw
      { [world |-> up, result |-> "null", mapping |-> NoMapping,
         storage |-> "failed"] }
      \cup
      UNION {
        LET pgId  == IF mp.postgresqlId # NoId THEN mp.postgresqlId
                     ELSE messageId
            found == {i \in 1..Len(W.feedback) :
                        W.feedback[i].messageId = messageId
                        \/ W.feedback[i].postgresqlId = pgId}
        IN  IF found # {}
              THEN { [world |-> up, result |-> rating(W.feedback[i]),
                      mapping |-> mp, storage |-> "ok"] : i \in found }
              \* the analytics API is asked; it knows a rating or not
              ELSE { [world |-> up, result |-> r, mapping |-> mp,
                      storage |-> "ok"] :
                       r \in {"positive", "negative", "null"} } :
        mp \in EitherLookup(W.maps, messageId) }

(***************************************************************************)
(* The server: broadcastConversation and the response cache of the /chat   *)
(* handler.                                                                *)
(***************************************************************************)
RESPONSE_TTL == 3600000

BroadcastResult(success, pgId, error) ==
  [success |-> success, postgresqlId |-> pgId, error |-> error]

\* No broadcastConversation call has completed.
NoBroadcast ==
  [variant |-> "none", gate |-> "none", remote |-> NoId, turn |-> 0,
   convs |-> <<>>, result |-> BroadcastResult(FALSE, NoId, "none")]

\* part_003 lines 363-367, api/index.js lines 102-106, part_000 lines
\* 915-919: processMessagePair did not succeed.
ProcessorRejection(error) == BroadcastResult(FALSE, NoId, error)

\* broadcastConversation(userMessage, botResponse, language, topic, type,
\* clientSessionId, status), called at time t.
broadcastConversation(userMessage, botResponse, language, sessionId, W, t) ==
  IF Falsy(userMessage) \/ Falsy(botResponse)
    THEN { [world |-> W, gate |-> "none", remote |-> NoId, convs |-> <<>>,
            result |-> BroadcastResult(FALSE, NoId, "empty_message")] }
  ELSE UNION {
    IF p.result.success
      THEN UNION {
             LET W2 == [p.world EXCEPT !.cache = o.cache, !.store = o.store,
                                       !.conn = o.conn]
             IN  { \* pusher.trigger resolved
                   [world |-> W2, gate |-> "", remote |-> p.result.postgresqlId,
                    convs |-> <<p.conv, o.session.conversationId>>,
                    result |-> BroadcastResult(TRUE, p.result.postgresqlId,
                                               "")],
                   \* pusher.trigger threw
                   [world |-> W2, gate |-> "", remote |-> p.result.postgresqlId,
                    convs |-> <<p.conv, o.session.conversationId>>,
                    result |-> BroadcastResult(FALSE, NoId, "")] } :
             o \in getOrCreateSession(sessionId, p.world.cache, p.world.store,
                                      p.world.conn, t) }
      ELSE { [world |-> p.world, gate |-> p.result.error, remote |-> NoId,
              convs |-> <<>>,
              result |-> ProcessorRejection(p.result.error)] } :
    p \in processMessagePair(userMessage, botResponse, sessionId, language,
                             W, t) }

\* broadcastConversation of the messages-array server (part_000 lines
\* 34-125): a Pusher failure is caught inside, a duplicate is reported as
\* success with the marker deduplicated.
broadcastConversation_000(userMessage, botResponse, language, sessionId, W, t) ==
  IF Falsy(userMessage) \/ Falsy(botResponse)
    THEN { [world |-> W, gate |-> "none", remote |-> NoId, convs |-> <<>>,
            result |-> BroadcastResult(FALSE, NoId, "empty_message")] }
  ELSE UNION {
    IF p.result.success
      THEN { [world |-> [p.world EXCEPT !.cache = o.cache, !.store = o.store,
                                        !.conn = o.conn],
              gate |-> "", remote |-> p.result.postgresqlId,
              convs |-> <<p.conv, o.session.conversationId>>,
              result |-> BroadcastResult(TRUE, p.result.postgresqlId, "")] :
             o \in getOrCreateSession(sessionId, p.world.cache, p.world.store,
                                      p.world.conn, t) }
    ELSE IF p.result.error = "duplicate_message"
      THEN { [world |-> p.world, gate |-> p.result.error, remote |-> NoId,
              convs |-> <<>>,
              result |-> BroadcastResult(TRUE, NoId, "deduplicated")] }
    ELSE { [world |-> p.world, gate |-> p.result.error, remote |-> NoId,
            convs |-> <<>>,
            result |-> BroadcastResult(FALSE, NoId, p.result.error)] } :
    p \in processMessagePair(userMessage, botResponse, sessionId, language,
                             W, t) }

\* String.prototype.toLowerCase, on the letters of the model.
LowerChar(c) == IF c = "H" THEN "h" ELSE IF c = "I" THEN "i" ELSE c
ToLowerCase(x) == [i \in 1..Len(x) |-> LowerChar(x[i])]

\* String.prototype.trim
RECURSIVE TrimStart(_)
TrimStart(x) ==
  IF x # <<>> /\ Head(x) = " " THEN TrimStart(Tail(x)) ELSE x
RECURSIVE TrimEnd(_)
TrimEnd(x) ==
  IF x # <<>> /\ x[Len(x)] = " " THEN TrimEnd(SubSeq(x, 1, Len(x) - 1))
  ELSE x
Trim(x) == TrimEnd(TrimStart(x))

\* `${undefined}`
Undefined == <<"u", "n", "d", "e", "f", "i", "n", "e", "d">>

\* Mutation of NormalizedInput: the text is trimmed but keeps its case.
NormalizedInputCased(userMessage) ==
  IF userMessage = NullText THEN Undefined ELSE Trim(userMessage)

\* userMessage?.toLowerCase().trim(), as the template literal renders it
NormalizedInput(userMessage) ==
  IF userMessage = NullText THEN Undefined ELSE Trim(ToLowerCase(userMessage))

\* userMessage?.match(/[áéíóúýþæðö]/i)
IcelandicChars == {"á", "é", "í", "ó", "ú", "ý", "þ", "æ", "ð", "ö"}
DetectedLanguage(language, userMessage) ==
  IF language # "" THEN language
  ELSE IF userMessage # NullText
          /\ \E i \in 1..Len(userMessage) : userMessage[i] \in IcelandicChars
    THEN "is"
  ELSE "en"

\* The characters a token, a language code and a count are rendered with.
TokenChars(token) ==
  IF token[1] = "session" THEN <<"session_", ToString(token[2])>>
  ELSE <<token[1]>>
LanguageChars(language) ==
  IF language = "en" THEN <<"e", "n">>
  ELSE IF language = "is" THEN <<"i", "s">>
  ELSE <<language>>

\* Line 864: the cache key, a string.
CacheKey(sessionId, userMessage, language, images, files) ==
  TokenChars(sessionId) \o <<":">> \o NormalizedInput(userMessage)
    \o <<":">> \o LanguageChars(language)
    \o <<":">> \o <<ToString(Len(images))>>
    \o <<":">> \o <<ToString(Len(files))>>

\* The JSON body of a reply (topic and debugInfo left out).
ResponseData(reply, sessionId, language) ==
  [message |-> reply, sessionId |-> sessionId, postgresqlMessageId |-> NoId,
   language |-> language]

NoResponse == ResponseData(<<>>, NullToken, "")
NoEntry == [eid |-> 0, response |-> NoResponse, timestamp |-> 0]

\* responseCache.get(cacheKey)
CacheGet(cache, key) == IF key \in DOMAIN cache THEN cache[key] ELSE NoEntry

\* Mutation of CacheFresh: an entry exactly one hour old is served.
CacheFreshInclusive(entry, t) ==
  entry # NoEntry /\ t - entry.timestamp <= RESPONSE_TTL

\* Line 867: cached && Date.now() - cached.timestamp < 3600000
CacheFresh(entry, t) ==
  entry # NoEntry /\ t - entry.timestamp < RESPONSE_TTL

\* Lines 865-871: what a lookup of key at time t serves; NoResponse is a
\* miss.
CacheLookup(cache, key, t) ==
  IF CacheFresh(CacheGet(cache, key), t) THEN CacheGet(cache, key).response
  ELSE NoResponse

\* Mutation of CacheSweep: an entry exactly one hour old is removed too.
CacheSweepInclusive(cache, t) ==
  [k \in {x \in DOMAIN cache : ~ (cache[x].timestamp <= t - RESPONSE_TTL)}
     |-> cache[k]]

\* Lines 1096-1101: the periodic sweep.
CacheSweep(cache, t) ==
  [k \in {x \in DOMAIN cache : ~ (cache[x].timestamp < t - RESPONSE_TTL)}
     |-> cache[k]]

\* Lines 999-1001: cached.response.postgresqlMessageId = postgresqlId, on
\* the entry object the handler read before the model was called.
BackFill(cache, eid, pgId) ==
  [k \in DOMAIN cache |->
     IF cache[k].eid = eid
       THEN [cache[k] EXCEPT !.response.postgresqlMessageId = pgId]
       ELSE cache[k]]

\* Lines 878-884, 894-897 and 953-956: session.messages.push
Pushed(history, sessionId, role, content) ==
  LET old   == IF sessionId \in DOMAIN history THEN history[sessionId]
               ELSE <<>>
      added == Append(old, [role |-> role, content |-> content])
  IN  MapSet(history, sessionId, added)

\* Lines 899-902: keep only the last ten messages
LastTen(history, sessionId) ==
  LET h == history[sessionId]
  IN  IF Len(h) > 10
        THEN MapSet(history, sessionId, SubSeq(h, Len(h) - 9, Len(h)))
        ELSE history

FilePlaceholder == <<"[", "f", "i", "l", "e", "]">>
ImagePlaceholder == <<"[", "i", "m", "g", "]">>

\* userMessage || (files && files.length > 0 ? '[Skjal sent]' : '[Mynd send]')
MessageOrPlaceholder(userMessage, files) ==
  IF ~ Falsy(userMessage) THEN userMessage
  ELSE IF Len(files) > 0 THEN FilePlaceholder ELSE ImagePlaceholder

(***************************************************************************)
(* Environment: the clock and the process lifetime.                        *)
(***************************************************************************)

NoSession == SessionObject(NullToken, NoConv, 0, 0, FALSE)

NoCall ==
  [sid |-> NullToken, at |-> 0, session |-> NoSession, path |-> "none",
   failed |-> {}, hadPrev |-> FALSE, prevConv |-> NoConv, prevAt |-> 0,
   prevFailed |-> FALSE, sameProcess |-> FALSE, cachedBefore |-> FALSE, storedFresh |-> FALSE]

\* The trace "s1 at t=0, at t=5min, at t=21min" as a monitor of the run.
ScenarioToken == <<"s1", 0, 0>>
NoScenario == [stage |-> 0, first |-> NoConv, second |-> NoConv,
               third |-> NoSession]
OffScenario == [NoScenario EXCEPT !.stage = -1]

ScenarioTimes == <<0, Minutes(5), Minutes(21)>>

ScenarioStep(sc, sid, t, s) ==
  IF sid # ScenarioToken \/ sc.stage = -1 THEN sc
  ELSE IF sc.stage = 3 \/ t # ScenarioTimes[sc.stage + 1] THEN OffScenario
  ELSE IF sc.stage = 0 THEN [sc EXCEPT !.stage = 1, !.first = s.conversationId]
  ELSE IF sc.stage = 1 THEN [sc EXCEPT !.stage = 2, !.second = s.conversationId]
  ELSE [sc EXCEPT !.stage = 3, !.third = s]

NoReturn == [conv |-> NoConv, at |-> 0, epoch |-> 0, failed |-> FALSE]

\* What the history records of a completed call.
CallRecord(sid, o, t, cache, store, hist, epoch) ==
  LET fsid == o.session.sessionId
      had  == fsid \in DOMAIN hist
      prev == IF had THEN hist[fsid] ELSE NoReturn
  IN  [sid |-> sid, at |-> t, session |-> o.session, path |-> o.path,
       failed |-> o.failed, hadPrev |-> had, prevConv |-> prev.conv,
       prevAt |-> prev.at, prevFailed |-> prev.failed,
       sameProcess |-> had /\ prev.epoch = epoch,
       cachedBefore |-> fsid \in DOMAIN cache,
       storedFresh |->
         had /\ \E i \in 1..Len(store) :
                   /\ store[i].frontendSessionId = fsid
                   /\ store[i].conversationId = prev.conv
                   /\ ~ TimedOut(t, store[i].lastActivity)]

EmptyMap == [x \in {} |-> NoSession]

NoPairLog == [calls |-> 0, saved |-> 0, posted |-> 0]

NoPair ==
  [sid |-> NullToken, userMessage |-> <<>>, botResponse |-> <<>>,
   result |-> PairFailure("none"), conv |-> NoConv, saved |-> FALSE,
   posted |-> FALSE, seenBefore |-> FALSE, sig |-> <<>>,
   forward |-> NoForward, forwardedBefore |-> FALSE, earlier |-> NoId,
   how |-> "none", afterSave |-> <<>>, untouched |-> TRUE, built |-> <<>>]

NoOp ==
  [op |-> "none", id |-> NoId, remote |-> NoId, success |-> FALSE,
   postgresqlId |-> NoId, mapping |-> NoMapping, forward |-> "none",
   storage |-> "none", known |-> {}, stored |-> 0,
   record |-> [messageId |-> NoId, postgresqlId |-> NoId,
               isPositive |-> FALSE]]

\* A /chat request body, and the client that sent it.
Request(client, token, userMessage, language, images, files) ==
  [client |-> client, token |-> token, userMessage |-> userMessage,
   language |-> language, images |-> images, files |-> files]

NoRequest == Request("", NullToken, NullText, "", <<>>, <<>>)

NoChat ==
  [key |-> <<>>, at |-> 0, outcome |-> "none", served |-> NoResponse,
   before |-> NoEntry, request |-> NoRequest]

NoMessageCall ==
  [called |-> FALSE, at |-> 0,
   input |-> Message(NoId, NullText, "", "", "", NoTime, ""),
   output |-> Message(NoId, NullText, "", "", "", NoTime, "")]

NoNorm ==
  [called |-> FALSE, at |-> 0,
   input |-> Conversation(NoConv, NullToken, FALSE, <<>>, NullText, NullText, NoTime, NoTime, ""),
   output |-> [id |-> NoConv, sessionId |-> NullToken, messages |-> <<>>,
               startedAt |-> NoTime, endedAt |-> NoTime, language |-> ""]]

\* No connection, no attempt, no call (part_003 lines 1139-1147).
NoConnection == [client |-> 0, db |-> 0, connecting |-> 0]

\* Everything but the two dedup memories of messageProcessor.js and the
\* environment variable.
InitRest ==
  /\ mongoConnection = NoConnection
  /\ attempts = <<>>
  /\ microtasks = <<>>
  /\ callers = <<>>
  /\ now = 0
  /\ ticks = 0
  /\ restarts = 0
  /\ sessionCache = EmptyMap
  /\ globalSessions = <<>>
  /\ mongoConnected = FALSE
  /\ sessionCalls = 0
  /\ returned = [x \in {} |-> NoReturn]
  /\ lastCall = NoCall
  /\ scenario = NoScenario
  /\ conversations = <<>>
  /\ message_id_mappings = <<>>
  /\ message_feedback = <<>>
  /\ uuidSeq = 0
  /\ pgSeq = 0
  /\ posts = <<>>
  /\ pairCalls = 0
  /\ pairLog = [x \in {} |-> NoPairLog]
  /\ lastPair = NoPair
  /\ forwardLog = [x \in {} |-> NoId]
  /\ opCalls = 0
  /\ lastOp = NoOp
  /\ responseCache = [x \in {} |-> NoEntry]
  /\ entrySeq = 0
  /\ sessions = [x \in {} |-> <<>>]
  /\ inflight = {}
  /\ pending = {}
  /\ chatCalls = 0
  /\ backgroundRuns = 0
  /\ sweeps = 0
  /\ stored = [x \in {} |-> NoEntry]
  /\ askedFor = [x \in {} |-> NoRequest]
  /\ lastChat = NoChat
  /\ lastNorm = NoNorm
  /\ lastMessage = NoMessageCall
  /\ lastBroadcast = NoBroadcast
  /\ building = {}
  /\ suspended = {}
  /\ sessionLog = <<>>
  /\ finding = {}
  /\ pairing = {}
  /\ gateLog = <<>>
  /\ saving = {}
  /\ legacy = {}
  /\ turnSeq = 0
  /\ turns = [x \in {} |-> <<>>]

NoSent == [x \in {} |-> [timestamp |-> 0, postgresqlId |-> NoId]]

\* Everything but the two dedup memories, in a process whose environment
\* names a database.
InitOther ==
  /\ MONGODB_URI = "valid"
  /\ InitRest

\* Lines 8 and 11: new Set(), new Map()
Init ==
  /\ processedMessages = <<>>
  /\ analyticsSentMessages = NoSent
  /\ InitOther

\* The state a call of messageProcessor.js works on.
World ==
  [cache |-> sessionCache, store |-> globalSessions, conn |-> mongoConnected,
   processed |-> processedMessages, sent |-> analyticsSentMessages,
   convs |-> conversations, maps |-> message_id_mappings,
   feedback |-> message_feedback, uuid |-> uuidSeq, pg |-> pgSeq,
   posts |-> posts]

\* The call leaves the state W behind.
Becomes(W) ==
  /\ sessionCache' = W.cache
  /\ globalSessions' = W.store
  /\ mongoConnected' = W.conn
  /\ processedMessages' = W.processed
  /\ analyticsSentMessages' = W.sent
  /\ conversations' = W.convs
  /\ message_id_mappings' = W.maps
  /\ message_feedback' = W.feedback
  /\ uuidSeq' = W.uuid
  /\ pgSeq' = W.pg
  /\ posts' = W.posts

\* Time passes.
Tick(steps, limit) ==
  /\ ticks < limit
  /\ \E d \in steps : now' = now + d
  /\ ticks' = ticks + 1
  /\ UNCHANGED <<probeVars, serveVars, restarts, sessionVars, processorVars,
                 pairHistory,
                 opHistory, chatVars>>

\* The process is started again: the module-level state of
\* sessionManager.js (lines 8-10), messageProcessor.js (lines 8-12) and
\* database.js is created anew; the collections of the durable store stay.
Restart ==
  /\ restarts < MaxRestarts
  /\ restarts' = restarts + 1
  /\ sessionCache' = EmptyMap
  /\ mongoConnected' = FALSE
  /\ processedMessages' = <<>>
  /\ analyticsSentMessages' = [x \in {} |-> [timestamp |-> 0, postgresqlId |-> NoId]]
  /\ scenario' = OffScenario
  /\ pairLog' = [x \in {} |-> NoPairLog]
  /\ forwardLog' = [x \in {} |-> NoId]
  /\ responseCache' = [x \in {} |-> NoEntry]
  /\ sessions' = [x \in {} |-> <<>>]
  /\ inflight' = {}
  /\ pending' = {}
  /\ stored' = [x \in {} |-> NoEntry]
  /\ askedFor' = [x \in {} |-> NoRequest]
  /\ legacy' = {}
  /\ building' = {}
  /\ suspended' = {}
  /\ finding' = {}
  /\ pairing' = {}
  /\ saving' = {}
  /\ UNCHANGED <<gateLog, sessionLog, normVars, connVars, lastBroadcast, turnSeq, turns, now, ticks, globalSessions,
                 sessionCalls, returned, lastCall,
                 conversations, message_id_mappings, message_feedback,
                 uuidSeq, pgSeq, posts, pairCalls, lastPair, opHistory,
                 entrySeq, chatCalls, backgroundRuns, sweeps, lastChat>>

\* A caller awaits getOrCreateSession(sid).
CallGetOrCreateSession(tokens) ==
  /\ sessionCalls < MaxSessionCalls
  /\ \E sid \in tokens :
       \E o \in getOrCreateSession(sid, sessionCache, globalSessions,
                                   mongoConnected, now) :
         /\ sessionCache' = o.cache
         /\ globalSessions' = o.store
         /\ mongoConnected' = o.conn
         /\ lastCall' = CallRecord(sid, o, now, sessionCache, globalSessions,
                                   returned, restarts)
         /\ returned' = MapSet(returned, o.session.sessionId,
                               [conv |-> o.session.conversationId, at |-> now,
                                epoch |-> restarts, failed |-> o.failed # {}])
         /\ scenario' = ScenarioStep(scenario, sid, now, o.session)
  /\ sessionCalls' = sessionCalls + 1
  /\ UNCHANGED <<probeVars, serveVars,
                 envVars, processorVars, pairHistory, opHistory, chatVars>>

\* The tokens of the callers of the session specification: one client and
\* callers that supply no token.
SessionTokens == {ScenarioToken, NullToken}

SessionNext ==
  \/ Tick(SessionSteps, MaxTicks)
  \/ Restart
  \/ CallGetOrCreateSession(SessionTokens)

SpecSession == Init /\ [][SessionNext]_vars

(***************************************************************************)
(* getOrCreateSession in two steps for a token that is in the cache: the   *)
(* synchronous part up to the first await (lines 20-56, 78-85), which      *)
(* leaves the cache entry in place, and the rest.  Other calls may run in  *)
(* between.  A call for a token that is not in the cache changes nothing   *)
(* before its first await and is taken in one step.                        *)
(***************************************************************************)
MaxBurstCalls == 4
MaxBurstTicks == 2

BurstSteps == {1, Minutes(16)}

\* The cache as the synchronous part leaves it without the set of line 51
\* or line 80.
CacheAtAwaitStale(o, cache) == cache

\* Lines 51 and 79-80: the cache entry is set before the first await.
CacheAtAwait(o, cache) == o.cache

LoggedCall(fsid, o, at, n) ==
  [fsid |-> fsid, path |-> o.path, conv |-> o.session.conversationId,
   at |-> at, n |-> n]

\* Lines 20-56 and 78-85, or the whole call when the token is not cached.
SessionCallBegin(tokens, limit) ==
  /\ sessionCalls + Cardinality(suspended) < limit
  /\ \E fsid \in tokens :
       LET n == sessionCalls + Cardinality(suspended) + 1
       IN  IF fsid \in DOMAIN sessionCache
             THEN \E o \in CachedOutcomes(fsid, sessionCache, globalSessions,
                                          mongoConnected, now) :
                    /\ sessionCache' = CacheAtAwait(o, sessionCache)
                    /\ suspended' = suspended \cup
                         { [fsid |-> fsid, at |-> now, n |-> n,
                            before |-> sessionCache] }
                    /\ UNCHANGED <<globalSessions, mongoConnected,
                                   sessionCalls, sessionLog>>
             ELSE \E o \in UncachedOutcomes(fsid, sessionCache, globalSessions,
                                            mongoConnected, now) :
                    /\ sessionCache' = o.cache
                    /\ globalSessions' = o.store
                    /\ mongoConnected' = o.conn
                    /\ sessionCalls' = sessionCalls + 1
                    /\ sessionLog' = Append(sessionLog,
                                            LoggedCall(fsid, o, now, n))
                    /\ UNCHANGED suspended
  /\ UNCHANGED <<moreVars, normVars, connVars, lastBroadcast, building, serveVars, envVars,
                 returned, lastCall, scenario, processorVars, pairHistory,
                 opHistory, chatVars>>

\* Lines 56-76 and 86-99: the write to globalSessions settles and the call
\* returns the session object it holds.
SessionCallResume ==
  /\ \E c \in suspended :
       \E o \in CachedOutcomes(c.fsid, c.before, globalSessions,
                                mongoConnected, c.at) :
         /\ globalSessions' = o.store
         /\ mongoConnected' = o.conn
         /\ suspended' = suspended \ {c}
         /\ sessionLog' = Append(sessionLog, LoggedCall(c.fsid, o, c.at, c.n))
  /\ sessionCalls' = sessionCalls + 1
  /\ UNCHANGED <<moreVars, normVars, connVars, lastBroadcast, building, serveVars, envVars,
                 sessionCache, returned, lastCall, scenario, processorVars,
                 pairHistory, opHistory, chatVars>>

BurstTokens == {ScenarioToken}

BurstNext ==
  \/ Tick(BurstSteps, MaxBurstTicks)
  \/ SessionCallBegin(BurstTokens, MaxBurstCalls)
  \/ SessionCallResume

SpecBurst == Init /\ [][BurstNext]_vars

(***************************************************************************)
(* getOrCreateSession for a token that is not in the cache, in two steps:  *)
(* up to the resolution of findOne (lines 20-134), and from there on       *)
(* (lines 136-243).  Other calls may run in between.                       *)
(***************************************************************************)
MaxRaceCalls == 2
MaxRaceTicks == 2

RaceSteps == {1}

RacedCall(c, o, log) ==
  [fsid |-> c.fsid, path |-> o.path, conv |-> o.session.conversationId,
   at |-> c.at, n |-> c.n, seen |-> c.seen, fresh |-> c.fresh,
   failed |-> o.failed, done |-> Len(log) + 1]

\* Lines 20-134: the token is not in the cache; connectToDatabase and
\* findOne have settled.  A failed connection ends the call (lines 107-121).
SessionFindBegin(tokens, limit) ==
  /\ sessionCalls + Cardinality(finding) < limit
  /\ \E fsid \in tokens :
       LET found == FindSessions(globalSessions, fsid)
           c == [fsid |-> fsid, at |-> now,
                 n |-> sessionCalls + Cardinality(finding) + 1,
                 seen |-> Len(sessionLog), fresh |-> found = {},
                 existing |-> 0]
       IN  /\ fsid \notin DOMAIN sessionCache
           /\ \/ /\ ~ mongoConnected
                 /\ LET o == TempSessionOutcome(fsid, sessionCache,
                                                globalSessions, now)
                    IN  /\ sessionCache' = o.cache
                        /\ sessionLog' = Append(sessionLog,
                                                RacedCall(c, o, sessionLog))
                 /\ sessionCalls' = sessionCalls + 1
                 /\ UNCHANGED <<finding, mongoConnected>>
              \/ /\ mongoConnected' = TRUE
                 /\ \E i \in found \cup {0} :
                      finding' = finding \cup {[c EXCEPT !.existing = i]}
                 /\ UNCHANGED <<sessionCache, sessionCalls, sessionLog>>
  /\ UNCHANGED <<pairing, gateLog, saving, normVars, connVars, lastBroadcast, building, suspended, serveVars,
                 envVars, globalSessions, returned, lastCall, scenario,
                 processorVars, pairHistory, opHistory, chatVars>>

\* Lines 136-243: the session found is reused or rolled over, or a new one
\* is created, inserted and cached.  existing = 0: findOne returned null
\* or threw.
SessionFindResume ==
  /\ \E c \in finding :
       \E o \in ( IF c.existing = 0
                    THEN CreatedOutcomes(c.fsid, sessionCache, globalSessions,
                                         now, {})
                    ELSE FoundOutcomes(c.fsid, globalSessions[c.existing],
                                       sessionCache, globalSessions, now) ) :
         /\ sessionCache' = o.cache
         /\ globalSessions' = o.store
         /\ finding' = finding \ {c}
         /\ sessionLog' = Append(sessionLog, RacedCall(c, o, sessionLog))
  /\ sessionCalls' = sessionCalls + 1
  /\ UNCHANGED <<pairing, gateLog, saving, normVars, connVars, lastBroadcast, building, suspended, serveVars,
                 envVars, mongoConnected, returned, lastCall, scenario,
                 processorVars, pairHistory, opHistory, chatVars>>

RaceNext ==
  \/ Tick(RaceSteps, MaxRaceTicks)
  \/ SessionFindBegin(BurstTokens, MaxRaceCalls)
  \/ SessionFindResume

SpecRace == Init /\ [][RaceNext]_vars

(***************************************************************************)
(* Message pairs.                                                          *)
(***************************************************************************)
MaxPairCalls == 2
MaxPairTicks == 1

Hi == <<"h", "i">>
Ok == <<"o", "k">>
\* Two texts of 41 characters that differ in the last character only.
LongA == [i \in 1..41 |-> "a"]
LongB == [i \in 1..41 |-> IF i = 41 THEN "b" ELSE "a"]

PairKey(o, userMessage, botResponse) == <<o.conv, userMessage, botResponse>>

PairLogged(log, key, o) ==
  LET old == IF key \in DOMAIN log THEN log[key] ELSE NoPairLog
  IN  MapSet(log, key,
             [calls |-> old.calls + 1,
              saved |-> old.saved + (IF o.saved THEN 1 ELSE 0),
              posted |-> old.posted + (IF o.posted THEN 1 ELSE 0)])

\* The call POSTed the conversation and obtained the remote id of its
\* assistant message.
Forwarded(o) == o.posted /\ o.forward.success /\ o.forward.postgresqlId # NoId

\* A caller awaits processMessagePair(userMessage, botResponse,
\* {sessionId: sid, language}).
CallProcessMessagePair(tokens, userTexts, botTexts, languages, limit) ==
  /\ pairCalls < limit
  /\ \E sid \in tokens, u \in userTexts, b \in botTexts, l \in languages :
       \E o \in processMessagePair(u, b, sid, l, World, now) :
         /\ Becomes(o.world)
         /\ lastPair' = [sid |-> sid, userMessage |-> u, botResponse |-> b,
                         result |-> o.result, conv |-> o.conv,
                         saved |-> o.saved, posted |-> o.posted,
                         seenBefore |-> PairKey(o, u, b) \in DOMAIN pairLog,
                         sig |-> o.sig, forward |-> o.forward,
                         how |-> o.how, afterSave |-> o.afterSave,
                         untouched |-> o.world = World, built |-> o.built,
                         forwardedBefore |-> o.sig \in DOMAIN forwardLog,
                         earlier |-> IF o.sig \in DOMAIN forwardLog
                                       THEN forwardLog[o.sig] ELSE NoId]
         /\ pairLog' = IF o.conv = NoConv THEN pairLog
                       ELSE PairLogged(pairLog, PairKey(o, u, b), o)
         /\ forwardLog' = IF Forwarded(o) THEN MapSet(forwardLog, o.sig,
                                                      o.forward.postgresqlId)
                          ELSE forwardLog
  /\ pairCalls' = pairCalls + 1
  /\ UNCHANGED <<probeVars, serveVars,
                 envVars, sessionHistory, opHistory, chatVars>>

PairTokens == {<<"s1", 0, 0>>}
PairUserTexts == {Hi, LongA, LongB}
PairBotTexts == {Ok}

PairsNext ==
  \/ Tick(SessionSteps, MaxPairTicks)
  \/ Restart
  \/ CallProcessMessagePair(PairTokens, PairUserTexts, PairBotTexts, {""},
                            MaxPairCalls)

SpecPairs == Init /\ [][PairsNext]_vars

(***************************************************************************)
(* processMessagePair in a process whose processedMessages is one or two   *)
(* entries short of its limit: the signatures of pairs that anonymous      *)
(* clients sent, one a millisecond, before the clock of the model starts.  *)
(***************************************************************************)
MaxPruneCalls == 2
MaxPruneTicks == 1

EarlierSignature(i) ==
  << <<<<"session", 0 - (i + 1), 1>>, 0 - (i + 1)>>, Hi, Ok >>

EarlierProcessed(n) == [i \in 1..n |-> EarlierSignature(n + 1 - i)]

InitNearLimit ==
  /\ processedMessages \in {EarlierProcessed(n) :
                               n \in (PROCESSED_LIMIT - 1)..PROCESSED_LIMIT}
  /\ analyticsSentMessages = NoSent
  /\ InitOther

PruneNext ==
  \/ Tick({1}, MaxPruneTicks)
  \/ CallProcessMessagePair(PairTokens, {Hi, LongA}, PairBotTexts, {""},
                            MaxPruneCalls)

SpecPrune == InitNearLimit /\ [][PruneNext]_vars

(***************************************************************************)
(* processMessagePair in a process whose analyticsSentMessages holds       *)
(* SENT_LIMIT entries, recorded one a millisecond before the clock of the  *)
(* model starts.                                                           *)
(***************************************************************************)
MaxGrowthCalls == 2
MaxGrowthTicks == 1

EarlierSentSignature(i) == << <<Ok, 0 - (i + 1)>> >>

EarlierSent(n) ==
  [k \in {EarlierSentSignature(i) : i \in 1..n} |->
     [timestamp |-> k[1][2], postgresqlId |-> <<"pg-earlier", 0, 0 - k[1][2]>>]]

InitForwarded ==
  /\ processedMessages = <<>>
  /\ analyticsSentMessages = EarlierSent(SENT_LIMIT)
  /\ InitOther

GrowthNext ==
  \/ Tick({1}, MaxGrowthTicks)
  \/ CallProcessMessagePair(PairTokens, {Hi, LongA}, PairBotTexts, {""},
                            MaxGrowthCalls)

SpecGrowth == InitForwarded /\ [][GrowthNext]_vars

(***************************************************************************)
(* processMessagePair in two steps: up to the await of line 116, where the *)
(* messages are already stamped, and from the write on. Other calls and    *)
(* the clock may run in between.                                           *)
(***************************************************************************)
MaxTurnCalls == 2
MaxTurnTicks == 2

TurnSteps == {1, 5}
TurnUserTexts == {Hi, LongA}

\* Lines 24-105: validation, session, dedup gate, signature, the stamped
\* messages and the conversation.
PairBegin(tokens, userTexts, botTexts, languages, limit) ==
  /\ pairCalls + Cardinality(building) + Cardinality(saving) < limit
  /\ \E sid \in tokens, u \in userTexts, b \in botTexts, l \in languages :
       /\ ~ Falsy(u) /\ ~ Falsy(b)
       /\ \E o \in getOrCreateSession(sid, sessionCache, globalSessions,
                                       mongoConnected, now) :
            LET W0 == [World EXCEPT !.cache = o.cache, !.store = o.store,
                                    !.conn = o.conn]
                signature == <<o.session.conversationId,
                               Substring(u, USER_PREFIX),
                               Substring(b, BOT_PREFIX)>>
                built == BuiltPair(u, b, l, o, W0, now)
            IN  IF IsDuplicate(processedMessages, signature)
                  THEN /\ Becomes(W0)
                       /\ pairCalls' = pairCalls + 1
                       /\ UNCHANGED building
                  ELSE /\ Becomes([W0 EXCEPT
                                     !.processed = RecordProcessed(@, signature),
                                     !.uuid = @ + 2])
                       /\ building' = building \cup {built}
                       /\ UNCHANGED pairCalls
  /\ UNCHANGED <<moreVars, burstVars, normVars, connVars, lastBroadcast, serveVars, envVars, sessionHistory,
                 pairLog, lastPair, forwardLog, opHistory, chatVars>>

\* Lines 116-128: the write to the conversations collection, then the
\* forward.
PairFinish ==
  /\ \E c \in building :
       \E sv \in saveConversationToMongoDB(c.conv, World, now) :
         \E an \in sendConversationToAnalytics(c.conv, sv.world, now) :
           /\ Becomes(an.world)
           /\ building' = building \ {c}
  /\ pairCalls' = pairCalls + 1
  /\ UNCHANGED <<moreVars, burstVars, normVars, connVars, lastBroadcast, serveVars, envVars, sessionHistory,
                 pairLog, lastPair, forwardLog, opHistory, chatVars>>

\* The document insertOne stores (lines 173-177).
ConversationDocument(conv, t) ==
  [id |-> conv.id, sessionId |-> conv.sessionId, messages |-> conv.messages,
   startedAt |-> conv.startedAt, endedAt |-> conv.endedAt,
   language |-> conv.language, createdAt |-> t, lastActivity |-> t]

\* Lines 146-155, 186-190 and 119-128: connectToDatabase and findOne
\* settle.  When either throws the save returns false and the call goes
\* on to the forward.
SaveFind ==
  /\ \E c \in building :
       /\ building' = building \ {c}
       /\ \/ \E conn \in {x \in ConnectResults(mongoConnected) : ~x} \cup {TRUE} :
               \E an \in sendConversationToAnalytics(
                           c.conv, [World EXCEPT !.conn = conn], now) :
                 /\ Becomes(an.world)
                 /\ pairCalls' = pairCalls + 1
                 /\ UNCHANGED saving
          \/ /\ Becomes([World EXCEPT !.conn = TRUE])
             /\ saving' = saving \cup
                  { [conv |-> c.conv,
                     existing |-> \E i \in 1..Len(conversations) :
                                    conversations[i].id = c.conv.id] }
             /\ UNCHANGED pairCalls
  /\ UNCHANGED <<finding, pairing, gateLog, burstVars, normVars, connVars,
                 lastBroadcast, serveVars, envVars, sessionHistory, pairLog,
                 lastPair, forwardLog, opHistory, chatVars>>

\* Lines 156-185 and 119-128: updateOne when findOne had returned a
\* document, insertOne when it had returned null; then the forward.
SaveWrite ==
  /\ \E c \in saving :
       LET matching == {i \in 1..Len(conversations) :
                         conversations[i].id = c.conv.id}
           written ==
             IF c.existing
               THEN { [World EXCEPT !.convs[i].messages = @ \o c.conv.messages,
                                    !.convs[i].endedAt = c.conv.endedAt,
                                    !.convs[i].lastActivity = now] :
                        i \in matching }
               ELSE { [World EXCEPT
                         !.convs = Append(@, ConversationDocument(c.conv, now))] }
       IN  /\ saving' = saving \ {c}
           /\ \E W1 \in written \cup {World} :
                \E an \in sendConversationToAnalytics(c.conv, W1, now) :
                  Becomes(an.world)
  /\ pairCalls' = pairCalls + 1
  /\ UNCHANGED <<finding, pairing, gateLog, building, burstVars, normVars, connVars,
                 lastBroadcast, serveVars, envVars, sessionHistory, pairLog,
                 lastPair, forwardLog, opHistory, chatVars>>

MaxSaveCalls == 2
MaxSaveTicks == 1

SavesNext ==
  \/ Tick(TurnSteps, MaxSaveTicks)
  \/ PairBegin(PairTokens, TurnUserTexts, PairBotTexts, {""}, MaxSaveCalls)
  \/ SaveFind
  \/ SaveWrite

SpecSaves == Init /\ [][SavesNext]_vars

TurnsNext ==
  \/ Tick(TurnSteps, MaxTurnTicks)
  \/ PairBegin(PairTokens, TurnUserTexts, PairBotTexts, {""}, MaxTurnCalls)
  \/ PairFinish

SpecTurns == Init /\ [][TurnsNext]_vars

(***************************************************************************)
(* processMessagePair with its session call in flight: up to the point     *)
(* where getOrCreateSession has read the cache or the store (line 45),     *)
(* and from the resolution of the session on (lines 45-128).               *)
(***************************************************************************)
MaxGateCalls == 2
MaxGateTicks == 1

\* Line 45 is reached; the session call has read the cache (and set it, on
\* the cached path) or has got the result of findOne.
PairRaceBegin(tokens, userTexts, botTexts, limit) ==
  /\ pairCalls + Cardinality(pairing) < limit
  /\ \E sid \in tokens, u \in userTexts, b \in botTexts :
       LET c == [sid |-> sid, userMessage |-> u, botResponse |-> b,
                 n |-> pairCalls + Cardinality(pairing) + 1,
                 seen |-> Len(gateLog), resolved |-> FALSE,
                 session |-> NoSession, existing |-> 0]
       IN  /\ ~ Falsy(u) /\ ~ Falsy(b)
           /\ IF sid \in DOMAIN sessionCache
                THEN \E o \in CachedOutcomes(sid, sessionCache, globalSessions,
                                             mongoConnected, now) :
                       /\ sessionCache' = o.cache
                       /\ globalSessions' = o.store
                       /\ mongoConnected' = o.conn
                       /\ pairing' = pairing \cup
                            {[c EXCEPT !.resolved = TRUE,
                                       !.session = o.session]}
                ELSE \/ /\ ~ mongoConnected
                        /\ LET o == TempSessionOutcome(sid, sessionCache,
                                                       globalSessions, now)
                           IN  /\ sessionCache' = o.cache
                               /\ pairing' = pairing \cup
                                    {[c EXCEPT !.resolved = TRUE,
                                               !.session = o.session]}
                        /\ UNCHANGED <<globalSessions, mongoConnected>>
                     \/ /\ mongoConnected' = TRUE
                        /\ \E i \in FindSessions(globalSessions, sid) \cup {0} :
                             pairing' = pairing \cup {[c EXCEPT !.existing = i]}
                        /\ UNCHANGED <<sessionCache, globalSessions>>
  /\ UNCHANGED <<finding, gateLog, saving, burstVars, normVars, connVars, lastBroadcast,
                 building, serveVars, envVars, sessionHistory, processorVars,
                 pairHistory, opHistory, chatVars>>

\* The sessions a suspended call can resume with.
ResumedSessions(c) ==
  IF c.resolved
    THEN { Outcome(c.session, sessionCache, globalSessions, mongoConnected,
                   "resolved", {}) }
  ELSE IF c.existing = 0
    THEN CreatedOutcomes(c.sid, sessionCache, globalSessions, now, {})
  ELSE FoundOutcomes(c.sid, globalSessions[c.existing], sessionCache,
                     globalSessions, now)

\* Lines 45-128: the session resolves; the signature, the gate, and for a
\* pair that passes the write and the forward.
PairRaceResume ==
  /\ \E c \in pairing :
       \E o \in ResumedSessions(c) :
         LET W0 == [World EXCEPT !.cache = o.cache, !.store = o.store,
                                 !.conn = o.conn]
             signature == <<o.session.conversationId,
                            Substring(c.userMessage, USER_PREFIX),
                            Substring(c.botResponse, BOT_PREFIX)>>
             passed == ~ IsDuplicate(processedMessages, signature)
         IN  /\ IF passed
                  THEN \E a \in AcceptedOutcomes(c.userMessage, c.botResponse,
                                                 "", o, W0, now, signature) :
                         Becomes(a.world)
                  ELSE Becomes(W0)
             /\ pairing' = pairing \ {c}
             /\ gateLog' = Append(gateLog,
                   [sid |-> c.sid, userMessage |-> c.userMessage,
                    botResponse |-> c.botResponse, n |-> c.n,
                    seen |-> c.seen, passed |-> passed,
                    conv |-> o.session.conversationId, at |-> now])
  /\ pairCalls' = pairCalls + 1
  /\ UNCHANGED <<finding, saving, burstVars, normVars, connVars, lastBroadcast, building,
                 serveVars, envVars, sessionHistory, pairLog, lastPair,
                 forwardLog, opHistory, chatVars>>

GateNext ==
  \/ Tick(RaceSteps, MaxGateTicks)
  \/ PairRaceBegin(PairTokens, {Hi}, {Ok}, MaxGateCalls)
  \/ PairRaceResume

SpecGate == Init /\ [][GateNext]_vars

MaxInputCalls == 2
MaxInputTicks == 1

\* Texts a caller may pass: present, empty, null or undefined.
InputUserTexts == {Hi, <<>>, NullText}
InputBotTexts == {Ok, <<>>, NullText}

InputsNext ==
  \/ Tick(SessionSteps, MaxInputTicks)
  \/ Restart
  \/ CallProcessMessagePair(PairTokens, InputUserTexts, InputBotTexts, {""},
                            MaxInputCalls)

SpecInputs == Init /\ [][InputsNext]_vars

(***************************************************************************)
(* Identifier mappings and feedback.                                       *)
(***************************************************************************)
MaxOpCalls == 2
MaxForwards == 1

\* Ids a caller of the mapping and feedback functions may come with: two
\* local ids, two remote ids, and every id a stored mapping holds.
LocalPool == {<<"msg", 0, 7>>, <<"msg", 0, 8>>}
RemotePool == {<<"pg", 0, 42>>, <<"pg", 0, 43>>}
StoredLocalIds == {message_id_mappings[i].mongodbId :
                     i \in 1..Len(message_id_mappings)}
StoredRemoteIds == {message_id_mappings[i].postgresqlId :
                      i \in 1..Len(message_id_mappings)}

\* The stored mappings that hold id on either side.
Known(id) ==
  {m \in Range(message_id_mappings) : m.mongodbId = id \/ m.postgresqlId = id}

\* A caller awaits createMessageIdMapping(mid, pid).
CallCreateMessageIdMapping(locals, remotes) ==
  /\ opCalls < MaxOpCalls
  /\ \E mid \in locals \cup StoredLocalIds,
        pid \in remotes \cup StoredRemoteIds :
       \E o \in createMessageIdMapping(mid, pid, World) :
         /\ Becomes(o.world)
         /\ lastOp' = [NoOp EXCEPT !.op = "create", !.id = mid,
                                   !.remote = pid,
                                   !.success = o.result.success,
                                   !.mapping = o.result.mapping]
  /\ opCalls' = opCalls + 1
  /\ UNCHANGED <<probeVars, serveVars,
                 envVars, sessionHistory, pairHistory, chatVars>>

\* A caller awaits submitMessageFeedback(id, isPositive).
CallSubmitMessageFeedback(ratings) ==
  /\ opCalls < MaxOpCalls
  /\ \E id \in LocalPool \cup RemotePool \cup StoredLocalIds
                 \cup StoredRemoteIds, isPositive \in ratings :
       \E o \in submitMessageFeedback(id, isPositive, World) :
         /\ Becomes(o.world)
         /\ lastOp' = [NoOp EXCEPT
               !.op = "submit", !.id = id,
               !.success = o.result.success,
               !.postgresqlId = o.result.postgresqlId,
               !.mapping = o.mapping, !.forward = o.forward,
               !.storage = o.storage, !.known = Known(id),
               !.stored = Len(o.world.feedback) - Len(message_feedback),
               !.record = IF Len(o.world.feedback) > Len(message_feedback)
                            THEN o.world.feedback[Len(o.world.feedback)]
                            ELSE NoOp.record]
  /\ opCalls' = opCalls + 1
  /\ UNCHANGED <<probeVars, serveVars,
                 envVars, sessionHistory, pairHistory, chatVars>>

\* A caller awaits getMessageFeedback(id).
CallGetMessageFeedback ==
  /\ opCalls < MaxOpCalls
  /\ \E id \in LocalPool \cup RemotePool \cup StoredLocalIds
                 \cup StoredRemoteIds :
       \E o \in getMessageFeedback(id, World) :
         /\ Becomes(o.world)
         /\ lastOp' = [NoOp EXCEPT !.op = "get", !.id = id,
                                   !.success = o.result # "null",
                                   !.mapping = o.mapping,
                                   !.storage = o.storage,
                                   !.known = Known(id)]
  /\ opCalls' = opCalls + 1
  /\ UNCHANGED <<probeVars, serveVars,
                 envVars, sessionHistory, pairHistory, chatVars>>

MapNext ==
  \/ CallProcessMessagePair(PairTokens, {Hi}, {Ok}, {""}, MaxForwards)
  \/ CallCreateMessageIdMapping(LocalPool, RemotePool)
  \/ CallSubmitMessageFeedback({TRUE})
  \/ CallGetMessageFeedback

SpecMap == Init /\ [][MapNext]_vars

(***************************************************************************)
(* The /chat handler.  A request is two steps: the synchronous part up to  *)
(* the cache lookup, and, after a miss, the part that awaits the session   *)
(* and the language model and then stores and sends the reply.  The        *)
(* continuation scheduled with setImmediate is a third step.               *)
(***************************************************************************)
MaxChatCalls == 2
MaxBackground == 1
MaxSweeps == 1
MaxCacheTicks == 1

CacheSteps == {RESPONSE_TTL - 1, RESPONSE_TTL, RESPONSE_TTL + 1}

HiLoud == <<"H", "I", " ">>
No == <<"n", "o">>

\* The log of a turn with one more event.
Logged(log, turn, event) ==
  MapSet(log, turn, Append(IF turn \in DOMAIN log THEN log[turn] ELSE <<>>,
                           event))

ChatRecord(key, outcome, served, before, request) ==
  [key |-> key, at |-> now, outcome |-> outcome, served |-> served,
   before |-> before, request |-> request]

\* Lines 826-871: parse, validate, compute the key, look the key up.
ChatLookup(limit, clients, messages, tokens, languages, imageLists, fileLists) ==
  /\ chatCalls + Cardinality(inflight) < limit
  /\ \E client \in clients, userMessage \in messages, token \in tokens,
        language \in languages, images \in imageLists, files \in fileLists :
       LET sessionId == IF token = NullToken THEN <<"session", now, 0>>
                        ELSE token
           request   == Request(client, token, userMessage, language, images,
                                files)
           detected  == DetectedLanguage(language, userMessage)
           cacheKey  == CacheKey(sessionId, userMessage, detected, images,
                                 files)
           cached    == CacheGet(responseCache, cacheKey)
       IN  IF Falsy(userMessage) /\ Len(images) = 0 /\ Len(files) = 0
             THEN /\ lastChat' = ChatRecord(<<>>, "rejected", NoResponse,
                                            NoEntry, request)
                  /\ chatCalls' = chatCalls + 1
                  /\ UNCHANGED inflight
           ELSE IF CacheFresh(cached, now)
             THEN /\ lastChat' = ChatRecord(cacheKey, "hit", cached.response,
                                            cached, request)
                  /\ chatCalls' = chatCalls + 1
                  /\ UNCHANGED inflight
           ELSE /\ inflight' = inflight \cup
                     { [key |-> cacheKey, sessionId |-> sessionId,
                        userMessage |-> userMessage, language |-> detected,
                        files |-> files, cached |-> cached.eid,
                        request |-> request] }
                /\ UNCHANGED <<lastChat, chatCalls>>
  /\ UNCHANGED <<probeVars, serveVars, envVars, sessionVars, processorVars, pairHistory, opHistory,
                 responseCache, entrySeq, sessions, pending, backgroundRuns,
                 sweeps, stored, askedFor>>

\* Lines 873-1027: the session, the history, the completion; then the cache
\* entry, the scheduled continuation and the reply, or status 500.
ChatComplete(replies) ==
  \E r \in inflight :
    \E o \in getOrCreateSession(r.sessionId, sessionCache, globalSessions,
                                mongoConnected, now) :
      LET content == MessageOrPlaceholder(r.userMessage, r.files)
          asked   == LastTen(Pushed(sessions, r.sessionId, "user", content),
                             r.sessionId)
      IN  /\ inflight' = inflight \ {r}
          /\ sessionCache' = o.cache
          /\ globalSessions' = o.store
          /\ mongoConnected' = o.conn
          /\ chatCalls' = chatCalls + 1
          /\ \/ \* the completion (or the file processing) threw: catch, 500
                /\ sessions' = asked
                /\ lastChat' = ChatRecord(r.key, "error", NoResponse,
                                          CacheGet(responseCache, r.key),
                                          r.request)
                /\ UNCHANGED <<responseCache, entrySeq, pending, stored,
                               askedFor, turns>>
             \/ \E reply \in replies :
                  LET responseData == ResponseData(reply, r.sessionId,
                                                   r.language)
                      entry == [eid |-> entrySeq + 1,
                                response |-> responseData, timestamp |-> now]
                  IN  /\ sessions' = Pushed(asked, r.sessionId, "assistant",
                                             reply)
                      /\ responseCache' = MapSet(responseCache, r.key, entry)
                      /\ stored' = MapSet(stored, r.key, entry)
                      /\ askedFor' = MapSet(askedFor, r.key, r.request)
                      /\ turns' = Logged(turns, <<"chat", entrySeq + 1>>,
                                         "reply")
                      /\ entrySeq' = entrySeq + 1
                      /\ pending' = pending \cup
                           { [userMessage |-> content, botResponse |-> reply,
                              language |-> r.language,
                              sessionId |-> r.sessionId,
                              variant |-> "part_003",
                              conv |-> o.session.conversationId,
                              cached |-> r.cached, n |-> entrySeq + 1] }
                      /\ lastChat' = ChatRecord(r.key, "miss", responseData,
                                                CacheGet(responseCache, r.key),
                                                r.request)
  /\ UNCHANGED <<probeVars, legacy, turnSeq, envVars, sessionHistory,
                 processorVars, pairHistory, opHistory, backgroundRuns,
                 sweeps>>

\* Lines 987-1010: the continuation forwards the pair and writes the remote
\* id into the entry object the request had read from the cache.
RunContinuation(limit) ==
  /\ backgroundRuns < limit
  /\ \E c \in pending :
       \E b \in broadcastConversation(c.userMessage, c.botResponse,
                                      c.language, c.sessionId, World, now) :
         /\ Becomes(b.world)
         /\ pending' = pending \ {c}
         /\ turns' = Logged(turns, <<"chat", c.n>>, "broadcast")
         /\ lastBroadcast' = [variant |-> c.variant, gate |-> b.gate,
                              turn |-> c.n, remote |-> b.remote,
                              convs |-> IF b.convs = <<>> THEN <<>>
                                        ELSE <<c.conv>> \o b.convs,
                              result |-> b.result]
         /\ responseCache' =
              IF b.result.postgresqlId # NoId /\ c.cached # 0
                THEN BackFill(responseCache, c.cached, b.result.postgresqlId)
                ELSE responseCache
  /\ backgroundRuns' = backgroundRuns + 1
  /\ UNCHANGED <<moreVars, burstVars, normVars, connVars, building, legacy, turnSeq, envVars, sessionHistory,
                 pairHistory, opHistory, entrySeq, sessions, inflight,
                 chatCalls, sweeps, stored, askedFor, lastChat>>

\* Lines 1095-1102: the hourly sweep.
Sweep ==
  /\ sweeps < MaxSweeps
  /\ responseCache' = CacheSweep(responseCache, now)
  /\ sweeps' = sweeps + 1
  /\ UNCHANGED <<probeVars, serveVars, envVars, sessionVars, processorVars, pairHistory, opHistory,
                 entrySeq, sessions, inflight, pending, chatCalls,
                 backgroundRuns, stored, askedFor, lastChat>>

ChatMessages == {Hi, HiLoud}
ChatTokens == {<<"s1", 0, 0>>}
ChatLanguages == {""}
ChatImages == {<<>>}
ChatFiles == {<<>>}
ChatClients == {"c1"}
Replies == {Ok, No}

CacheNext ==
  \/ Tick(CacheSteps, MaxCacheTicks)
  \/ ChatLookup(MaxChatCalls, ChatClients, ChatMessages, ChatTokens, ChatLanguages,
                ChatImages, ChatFiles)
  \/ ChatComplete(Replies)
  \/ RunContinuation(MaxBackground)
  \/ Sweep

SpecCache == Init /\ [][CacheNext]_vars

\* The sweep over a cache that holds entries of two sessions, written at
\* different times.  The continuations of the turns stay scheduled: they
\* write to the entry object read before the turn, which the turn's own
\* responseCache.set has replaced in the map.
MaxSweepCalls == 2
MaxSweepTicks == 2
SweepSteps == {1, RESPONSE_TTL}
SweepTokens == {<<"s1", 0, 0>>, <<"s2", 0, 0>>}

SweepNext ==
  \/ Tick(SweepSteps, MaxSweepTicks)
  \/ ChatLookup(MaxSweepCalls, ChatClients, {Hi}, SweepTokens, ChatLanguages,
                ChatImages, ChatFiles)
  \/ ChatComplete({Ok})
  \/ Sweep

SpecSweep == Init /\ [][SweepNext]_vars

(***************************************************************************)
(* The /chat handler of the messages-array server (part_000 lines          *)
(* 337-472): the completion, then the awaited broadcastConversation, then  *)
(* the reply.                                                              *)
(***************************************************************************)
MaxLegacyCalls == 1
MaxServeCalls == 1

ErrorText == <<"e", "r", "r">>

\* Lines 337-378 and 436-444: the request is parsed and the completion
\* awaited; the completion resolves with a reply or throws.
LegacyChatCall(limit, tokens, texts, replies) ==
  /\ turnSeq < limit
  /\ \E token \in tokens, userMessage \in texts, r \in Rands :
       LET clientSessionId == IF token = NullToken
                                THEN <<"session", now, r>> ELSE token
           language == IF DetectedLanguage("", userMessage) = "is"
                         THEN "is" ELSE "en"
       IN  \/ \E reply \in replies :
                legacy' = legacy \cup
                  { [n |-> turnSeq + 1, stage |-> "completed",
                     userMessage |-> userMessage, botResponse |-> reply,
                     language |-> language, sessionId |-> clientSessionId,
                     status |-> 200, postgresqlId |-> NoId] }
           \/ legacy' = legacy \cup
                  { [n |-> turnSeq + 1, stage |-> "completed",
                     userMessage |-> IF Falsy(userMessage)
                                       THEN <<"u", "n", "k">> ELSE userMessage,
                     botResponse |-> ErrorText,
                     language |-> "en", sessionId |-> token,
                     status |-> 500, postgresqlId |-> NoId] }
  /\ turnSeq' = turnSeq + 1
  /\ UNCHANGED <<probeVars, turns, envVars, sessionVars, processorVars,
                 pairHistory, opHistory, chatVars>>

\* Lines 396-421 and 447-464: await broadcastConversation(...)
LegacyChatBroadcast ==
  /\ \E q \in {x \in legacy : x.stage = "completed"} :
       \E b \in broadcastConversation_000(q.userMessage, q.botResponse,
                                          q.language, q.sessionId, World,
                                          now) :
         /\ Becomes(b.world)
         /\ legacy' = (legacy \ {q}) \cup
              { [q EXCEPT !.stage = "broadcast",
                          !.postgresqlId = IF b.result.success
                                             THEN b.result.postgresqlId
                                             ELSE NoId] }
         /\ turns' = Logged(turns, <<"legacy", q.n>>, "broadcast")
         /\ lastBroadcast' = [variant |-> "part_000", gate |-> b.gate,
                              turn |-> 0, remote |-> b.remote,
                              convs |-> b.convs, result |-> b.result]
  /\ UNCHANGED <<moreVars, burstVars, normVars, connVars, building, turnSeq, envVars, sessionHistory, pairHistory,
                 opHistory, chatVars>>

\* Lines 423-435 and 466-469: res.status(...).json(...)
LegacyChatReply ==
  /\ \E q \in {x \in legacy : x.stage = "broadcast"} :
       /\ legacy' = legacy \ {q}
       /\ turns' = Logged(turns, <<"legacy", q.n>>,
                          IF q.status = 200 THEN "reply" ELSE "error")
  /\ UNCHANGED <<probeVars, turnSeq, envVars, sessionVars, processorVars,
                 pairHistory, opHistory, chatVars>>

ServeNext ==
  \/ ChatLookup(MaxServeCalls, ChatClients, {Hi}, ChatTokens, ChatLanguages,
                ChatImages, ChatFiles)
  \/ ChatComplete({Ok})
  \/ RunContinuation(MaxBackground)
  \/ LegacyChatCall(MaxLegacyCalls, ChatTokens, {Hi, <<>>}, {Ok})
  \/ LegacyChatBroadcast
  \/ LegacyChatReply

SpecServe == Init /\ [][ServeNext]_vars

(***************************************************************************)
(* Two requests for one turn: the cache is consulted by both before either *)
(* has stored its reply, so both schedule a continuation for the same      *)
(* pair.                                                                   *)
(***************************************************************************)
MaxTwinCalls == 2
MaxTwinRuns == 2

TwinLanguages == {"", "en"}

TwinNext ==
  \/ ChatLookup(MaxTwinCalls, ChatClients, {Hi}, ChatTokens, TwinLanguages,
                ChatImages, ChatFiles)
  \/ ChatComplete({Ok})
  \/ RunContinuation(MaxTwinRuns)

SpecTwins == Init /\ [][TwinNext]_vars

(***************************************************************************)
(* The assembler: normalizeConversation applied to raw conversations.      *)
(***************************************************************************)
MaxNormTicks == 2

NormSteps == {1, 2}

\* Message lists a raw conversation may carry.
RawMessageLists ==
  { <<>>,
    << Message(NoId, Hi, "user", "", "", 3, "") >>,
    << Message(<<"m", 0, 1>>, Ok, "", "bot", "", 9, ""),
       Message(<<"m", 0, 2>>, Hi, "", "", "user", 4, "") >>,
    << Message(NoId, Ok, "", "", "", NoTime, "") >>,
    << Message(<<"m", 0, 1>>, Hi, "user", "", "", 5, ""),
       Message(<<"m", 0, 2>>, Ok, "assistant", "", "", 3, ""),
       Message(<<"m", 0, 3>>, Hi, "user", "", "", 5, "") >>,
    << Message(<<"m", 0, 1>>, Ok, "assistant", "", "", 7, ""),
       Message(<<"m", 0, 2>>, Ok, "assistant", "", "", 7, ""),
       Message(<<"m", 0, 3>>, Ok, "assistant", "", "", 2, "") >> }

\* Raw conversations with a message list, and without one.
RawConversations ==
  { Conversation(id, NullToken, TRUE, ms, um, br, st, NoTime, "") :
      id \in {NoConv, <<<<"s1", 0, 0>>, 0>>},
      ms \in RawMessageLists,
      um \in {NullText, <<>>, Hi},
      br \in {NullText, Ok},
      st \in {NoTime, 7} }
  \cup
  { Conversation(id, NullToken, FALSE, <<>>, um, br, st, NoTime, "") :
      id \in {NoConv, <<<<"s1", 0, 0>>, 0>>},
      um \in {NullText, <<>>, Hi},
      br \in {NullText, Ok},
      st \in {NoTime, 7} }

\* A caller applies normalizeConversation to a raw conversation.
CallNormalizeConversation(inputs) ==
  /\ \E c \in inputs, r \in Rands :
       lastNorm' = [called |-> TRUE, at |-> now, input |-> c,
                    output |-> normalizeConversation(c, now, r)]
  /\ UNCHANGED <<lastMessage, connVars, moreVars, burstVars, lastBroadcast, building, serveVars, envVars, sessionVars,
                 processorVars, pairHistory, opHistory, chatVars>>

NormNext ==
  \/ Tick(NormSteps, MaxNormTicks)
  \/ CallNormalizeConversation(RawConversations)

SpecNormalize == Init /\ [][NormNext]_vars

(***************************************************************************)
(* normalizeMessage applied to message objects that carry any combination  *)
(* of the role, sender, type and defaultRole keys.                         *)
(***************************************************************************)
MaxRoleTicks == 1

RawRoles == {"", "user", "assistant", "system"}
RawSenders == {"", "user", "bot"}
RawTypes == {"", "user", "bot"}
RawDefaultRoles == {"", "assistant", "bot"}

RawMessages ==
  { [Message(NoId, Hi, role, sender, type, ts, "") EXCEPT !.defaultRole = d] :
      role \in RawRoles, sender \in RawSenders, type \in RawTypes,
      d \in RawDefaultRoles, ts \in {NoTime, 3} }

\* A caller applies normalizeMessage to a message object.
CallNormalizeMessage(inputs) ==
  /\ \E m \in inputs, r \in Rands :
       lastMessage' = [called |-> TRUE, at |-> now, input |-> m,
                       output |-> normalizeMessage(m, now, r)]
  /\ UNCHANGED <<lastNorm, connVars, moreVars, burstVars, lastBroadcast, building, serveVars, envVars, sessionVars,
                 processorVars, pairHistory, opHistory, chatVars>>

RolesNext ==
  \/ Tick(NormSteps, MaxRoleTicks)
  \/ CallNormalizeMessage(RawMessages)

SpecRoles == Init /\ [][RolesNext]_vars

(***************************************************************************)
(* Cache keys: requests of two clients, with and without a token, with     *)
(* and without an image.                                                   *)
(***************************************************************************)
MaxKeyTicks == 1
MaxKeyCalls == 2

KeyClients == {"c1", "c2"}
KeyMessages == {Hi, HiLoud}
KeyTokens == {<<"s1", 0, 0>>, NullToken}
KeyLanguages == {""}
KeyImages == {<<>>, <<"imgA">>, <<"imgB">>}
KeySteps == {1}

KeysNext ==
  \/ Tick(KeySteps, MaxKeyTicks)
  \/ ChatLookup(MaxKeyCalls, KeyClients, KeyMessages, KeyTokens,
                KeyLanguages, KeyImages, ChatFiles)
  \/ ChatComplete(Replies)

SpecKeys == Init /\ [][KeysNext]_vars

(***************************************************************************)
(* The /chat handler of api/index.js (lines 282-420): the session lookup   *)
(* is started with the identifier as the request carries it, before the    *)
(* cache is consulted; the continuation is the one of part_003.            *)
(***************************************************************************)
MaxIndexCalls == 2
MaxIndexTicks == 1
MaxIndexBackground == 1

\* Line 299: the cache key; a request without a session identifier renders
\* it as the text undefined.
CacheKeyIndex(sessionId, message, language) ==
  (IF sessionId = NullToken THEN Undefined ELSE TokenChars(sessionId))
    \o <<":">> \o NormalizedInput(message)
    \o <<":">> \o LanguageChars(language)

\* Lines 286-306: getOrCreateSession(sessionId) is started, the language
\* detected, the key looked up.
IndexChatBegin(limit, clients, messages, tokens) ==
  /\ chatCalls + Cardinality(inflight) < limit
  /\ \E client \in clients, message \in messages, sessionId \in tokens :
       \E o \in getOrCreateSession(sessionId, sessionCache, globalSessions,
                                   mongoConnected, now) :
         LET request  == Request(client, sessionId, message, "", <<>>, <<>>)
             detected == DetectedLanguage("", message)
             cacheKey == CacheKeyIndex(sessionId, message, detected)
             cached   == CacheGet(responseCache, cacheKey)
         IN  /\ sessionCache' = o.cache
             /\ globalSessions' = o.store
             /\ mongoConnected' = o.conn
             /\ IF message = NullText
                  \* line 295: match of undefined throws, caught at line 421
                  THEN /\ lastChat' = ChatRecord(<<>>, "error", NoResponse,
                                                 NoEntry, request)
                       /\ chatCalls' = chatCalls + 1
                       /\ UNCHANGED inflight
                ELSE IF CacheFresh(cached, now)
                  THEN /\ lastChat' = ChatRecord(cacheKey, "hit",
                                                 cached.response, cached,
                                                 request)
                       /\ chatCalls' = chatCalls + 1
                       /\ UNCHANGED inflight
                ELSE /\ inflight' = inflight \cup
                          { [key |-> cacheKey, sessionId |-> sessionId,
                             userMessage |-> message, language |-> detected,
                             files |-> <<>>, cached |-> cached.eid,
                             conv |-> o.session.conversationId,
                             request |-> request] }
                     /\ UNCHANGED <<lastChat, chatCalls>>
  /\ UNCHANGED <<probeVars, serveVars, envVars, sessionHistory, processorVars,
                 pairHistory, opHistory, responseCache, entrySeq, sessions,
                 pending, backgroundRuns, sweeps, stored, askedFor>>

\* Lines 308-425: the history, the completion; then the cache entry, the
\* scheduled continuation and the reply, or status 500.
IndexChatComplete(replies) ==
  \E r \in inflight :
    LET asked == LastTen(Pushed(sessions, r.sessionId, "user",
                                r.userMessage), r.sessionId)
    IN  /\ inflight' = inflight \ {r}
        /\ chatCalls' = chatCalls + 1
        /\ \/ \* the completion threw: catch, 500
              /\ sessions' = asked
              /\ lastChat' = ChatRecord(r.key, "error", NoResponse,
                                        CacheGet(responseCache, r.key),
                                        r.request)
              /\ UNCHANGED <<responseCache, entrySeq, pending, stored,
                             askedFor, turns>>
           \/ \E reply \in replies :
                LET responseData == ResponseData(reply, r.sessionId,
                                                 r.language)
                    entry == [eid |-> entrySeq + 1,
                              response |-> responseData, timestamp |-> now]
                IN  /\ sessions' = Pushed(asked, r.sessionId, "assistant",
                                           reply)
                    /\ responseCache' = MapSet(responseCache, r.key, entry)
                    /\ stored' = MapSet(stored, r.key, entry)
                    /\ askedFor' = MapSet(askedFor, r.key, r.request)
                    /\ turns' = Logged(turns, <<"chat", entrySeq + 1>>,
                                       "reply")
                    /\ entrySeq' = entrySeq + 1
                    /\ pending' = pending \cup
                         { [userMessage |-> r.userMessage,
                            botResponse |-> reply, language |-> r.language,
                            sessionId |-> r.sessionId,
                            variant |-> "api/index.js", conv |-> r.conv,
                            cached |-> r.cached, n |-> entrySeq + 1] }
                    /\ lastChat' = ChatRecord(r.key, "miss", responseData,
                                              CacheGet(responseCache, r.key),
                                              r.request)
  /\ UNCHANGED <<probeVars, legacy, turnSeq, envVars, sessionVars,
                 processorVars, pairHistory, opHistory, backgroundRuns,
                 sweeps>>

IndexTokens == {<<"s1", 0, 0>>, NullToken}

IndexNext ==
  \/ Tick({1}, MaxIndexTicks)
  \/ IndexChatBegin(MaxIndexCalls, ChatClients, {Hi}, IndexTokens)
  \/ IndexChatComplete({Ok})
  \/ RunContinuation(MaxIndexBackground)

SpecIndex == Init /\ [][IndexNext]_vars

(***************************************************************************)
(* database.js (part_003 lines 1134-1212).  A connection attempt is the    *)
(* promise of the async function of lines 1183-1201; attempts[p] is its    *)
(* state.  A client is named by the attempt that made it.  A call runs     *)
(* synchronously up to its first await; what follows an await on a         *)
(* promise is a reaction job, and the jobs of one promise are queued when  *)
(* it settles, in the order the awaits were reached, behind the jobs       *)
(* already queued.  A task (a request, a timer, a driver callback) starts  *)
(* when no job is queued.                                                  *)
(***************************************************************************)
MaxConnectCalls == 6
MaxAttempts == 3

\* { client: null, db: null }
NoClientPair == <<0, 0>>

\* A call: the branch it took, the promise it awaits and the state it found
\* that promise in, how it ended.
Caller(branch, awaiting, found, status, result) ==
  [branch |-> branch, awaiting |-> awaiting, found |-> found,
   status |-> status, result |-> result]

\* Mutation of ClearConnecting: a failure leaves the marker as it is.
ClearConnectingKept(m) == m

\* Lines 1198 and 1209: global.mongoConnection.connecting = null in a catch
ClearConnecting(m) == [m EXCEPT !.connecting = 0]

\* The reaction jobs of the calls awaiting promise p, in call order.
RECURSIVE Reactions(_, _, _)
Reactions(cs, p, i) ==
  IF i > Len(cs) THEN <<>>
  ELSE (IF cs[i].status = "suspended" /\ cs[i].awaiting = p
          THEN <<[kind |-> "resume", caller |-> i]>> ELSE <<>>)
       \o Reactions(cs, p, i + 1)

\* What a call leaves behind once it has returned or thrown: the job of
\* whoever awaits it.
Settled(queue, c) == Append(queue, [kind |-> "continue", caller |-> c])

\* connectToDatabase(), lines 1149-1204: the call runs up to its return,
\* its throw or its first await.
connectToDatabase(uri, m, att, queue, cs) ==
  LET c == Len(cs) + 1
      p == Len(att) + 1
  IN  IF m.client # 0 /\ m.db # 0
        \* lines 1152-1160: the cached connection
        THEN [conn |-> m, att |-> att,
              cs |-> Append(cs, Caller("cached", 0, "none", "returned",
                                       <<m.client, m.db>>)),
              queue |-> Settled(queue, c)]
      ELSE IF m.connecting # 0
        \* lines 1163-1165: await the attempt in progress
        THEN [conn |-> m, att |-> att,
              cs |-> Append(cs, Caller("wait", m.connecting,
                                       att[m.connecting], "suspended",
                                       NoClientPair)),
              queue |-> IF att[m.connecting] = "pending" THEN queue
                        ELSE Append(queue, [kind |-> "resume",
                                            caller |-> c])]
      ELSE IF uri = "missing"
        \* lines 1173-1176, caught at line 1207
        THEN [conn |-> ClearConnecting(m), att |-> att,
              cs |-> Append(cs, Caller("none", 0, "none", "thrown",
                                       NoClientPair)),
              queue |-> Settled(queue, c)]
      ELSE IF uri = "malformed"
        \* line 1185 throws, line 1198 clears the marker, line 1183 sets it
        \* to the rejected promise, line 1204 awaits that promise
        THEN [conn |-> [ClearConnecting(m) EXCEPT !.connecting = p],
              att |-> Append(att, "rejected"),
              cs |-> Append(cs, Caller("start", p, "rejected", "suspended",
                                       NoClientPair)),
              queue |-> Append(queue, [kind |-> "resume", caller |-> c])]
      \* lines 1183-1186 and 1204: the attempt is started and awaited
      ELSE [conn |-> [m EXCEPT !.connecting = p],
            att |-> Append(att, "pending"),
            cs |-> Append(cs, Caller("start", p, "pending", "suspended",
                                     NoClientPair)),
            queue |-> queue]

\* Whether a further call may start an attempt within the bounds.
WithinBounds == Len(callers) < MaxConnectCalls /\ Len(attempts) < MaxAttempts

Called(r) ==
  /\ mongoConnection' = r.conn
  /\ attempts' = r.att
  /\ callers' = r.cs
  /\ microtasks' = r.queue

\* A task calls connectToDatabase().
ConnectCall ==
  /\ microtasks = <<>>
  /\ WithinBounds
  /\ Called(connectToDatabase(MONGODB_URI, mongoConnection, attempts,
                              microtasks, callers))
  /\ UNCHANGED <<MONGODB_URI, normVars, lastBroadcast, building, burstVars,
                 moreVars, envVars, sessionVars, processorVars, pairHistory,
                 opHistory, chatVars, serveVars>>

\* Lines 1186-1196: client.connect() resolved; the client and the db are
\* stored and the attempt resolves.
AttemptConnects ==
  /\ microtasks = <<>>
  /\ \E p \in 1..Len(attempts) :
       /\ attempts[p] = "pending"
       /\ mongoConnection' = [mongoConnection EXCEPT !.client = p, !.db = p]
       /\ attempts' = [attempts EXCEPT ![p] = "resolved"]
       /\ microtasks' = Reactions(callers, p, 1)
  /\ UNCHANGED <<MONGODB_URI, callers, normVars, lastBroadcast, building,
                 burstVars, moreVars, envVars, sessionVars, processorVars,
                 pairHistory, opHistory, chatVars, serveVars>>

\* Lines 1186 and 1197-1200: client.connect() rejected; the marker is
\* cleared and the attempt rejects.
AttemptFails ==
  /\ microtasks = <<>>
  /\ \E p \in 1..Len(attempts) :
       /\ attempts[p] = "pending"
       /\ mongoConnection' = ClearConnecting(mongoConnection)
       /\ attempts' = [attempts EXCEPT ![p] = "rejected"]
       /\ microtasks' = Reactions(callers, p, 1)
  /\ UNCHANGED <<MONGODB_URI, callers, normVars, lastBroadcast, building,
                 burstVars, moreVars, envVars, sessionVars, processorVars,
                 pairHistory, opHistory, chatVars, serveVars>>

\* Lines 1165-1169 and 1204-1211: the call goes on after its await.
ResumeCaller ==
  /\ microtasks # <<>>
  /\ Head(microtasks).kind = "resume"
  /\ LET c == Head(microtasks).caller
         p == callers[c].awaiting
     IN  IF attempts[p] = "rejected"
           \* the await throws: lines 1207-1211
           THEN /\ mongoConnection' = ClearConnecting(mongoConnection)
                /\ callers' = [callers EXCEPT ![c].status = "thrown"]
         ELSE IF callers[c].branch = "start"
           \* lines 1204-1206: the pair the attempt resolved with
           THEN /\ mongoConnection' = [mongoConnection
                                        EXCEPT !.connecting = 0]
                /\ callers' = [callers EXCEPT ![c].status = "returned",
                                              ![c].result = <<p, p>>]
         \* lines 1166-1169: the pair the global holds
         ELSE /\ UNCHANGED mongoConnection
              /\ callers' = [callers EXCEPT
                               ![c].status = "returned",
                               ![c].result = <<mongoConnection.client,
                                               mongoConnection.db>>]
  /\ microtasks' = Settled(Tail(microtasks), Head(microtasks).caller)
  /\ UNCHANGED <<MONGODB_URI, attempts, normVars, lastBroadcast, building,
                 burstVars, moreVars, envVars, sessionVars, processorVars,
                 pairHistory, opHistory, chatVars, serveVars>>

\* Whoever awaited the call goes on, and calls connectToDatabase() again
\* (processMessagePair after a temporary session, part_002 lines 45 and
\* 116) or does not.
ContinueCaller ==
  /\ microtasks # <<>>
  /\ Head(microtasks).kind = "continue"
  /\ \/ /\ microtasks' = Tail(microtasks)
        /\ UNCHANGED <<mongoConnection, attempts, callers>>
     \/ /\ WithinBounds
        /\ Called(connectToDatabase(MONGODB_URI, mongoConnection, attempts,
                                    Tail(microtasks), callers))
  /\ UNCHANGED <<MONGODB_URI, normVars, lastBroadcast, building, burstVars,
                 moreVars, envVars, sessionVars, processorVars, pairHistory,
                 opHistory, chatVars, serveVars>>

MongoUris == {"valid", "malformed", "missing"}

InitConnect ==
  /\ MONGODB_URI \in MongoUris
  /\ processedMessages = <<>>
  /\ analyticsSentMessages = NoSent
  /\ InitRest

ConnectNext ==
  \/ ConnectCall
  \/ AttemptConnects
  \/ AttemptFails
  \/ ResumeCaller
  \/ ContinueCaller

SpecConnect == InitConnect /\ [][ConnectNext]_vars

(***************************************************************************)
(* Session store: properties.                                              *)
(***************************************************************************)

\* C1: a call for a token made less than SESSION_TIMEOUT after the previous
\* call for that token returns the conversationId the previous call
\* returned, whether the session is in the session cache or only in the
\* durable store (a stored record of that conversation, not timed out), when
\* no storage operation of the call fails.
C1_SameConversationWithinTimeout ==
  ( /\ lastCall.hadPrev
    /\ lastCall.at - lastCall.prevAt < SESSION_TIMEOUT
    /\ lastCall.failed = {}
    /\ (lastCall.cachedBefore \/ lastCall.storedFresh) )
  => lastCall.session.conversationId = lastCall.prevConv

\* C2: a call for a token whose session has been idle for more than
\* SESSION_TIMEOUT returns a session whose conversationId differs from the
\* prior one and whose previousConversationId is the prior one.
C2_RolloverKeepsBackReference ==
  ( /\ lastCall.hadPrev
    /\ lastCall.at - lastCall.prevAt > SESSION_TIMEOUT )
  => /\ lastCall.session.conversationId # lastCall.prevConv
     /\ lastCall.session.previousConversationId = lastCall.prevConv

\* C3: in the trace s1 at t=0, t=5min, t=21min the first two calls return
\* the same conversationId and the third a new one whose
\* previousConversationId is the first.
C3_TraceFiveTwentyOne ==
  scenario.stage = 3
  => /\ scenario.second = scenario.first
     /\ scenario.third.conversationId # scenario.first
     /\ scenario.third.previousConversationId = scenario.first

\* C4: getOrCreateSession always returns: whichever storage operations
\* fail, the result has a non-empty sessionId and conversationId and is the
\* cache entry of its token; and a call that follows a call for the same
\* token in the same process within the timeout returns the same
\* conversationId, storage failing or not.
C4_NeverRaises ==
  /\ \A sid \in SessionTokens :
       LET os == getOrCreateSession(sid, sessionCache, globalSessions,
                                    mongoConnected, now)
       IN  /\ os # {}
           /\ \E o \in os : o.failed # {}
           /\ \A o \in os :
                /\ o.session.sessionId # NullToken
                /\ o.session.conversationId # NoConv
                /\ sid # NullToken => o.session.sessionId = sid
                /\ o.session.sessionId \in DOMAIN o.cache
                /\ o.cache[o.session.sessionId] = o.session
  /\ ( /\ lastCall.hadPrev
       /\ lastCall.sameProcess
       /\ lastCall.at - lastCall.prevAt <= SESSION_TIMEOUT )
     => lastCall.session.conversationId = lastCall.prevConv

\* A call whose storage connection failed follows, five minutes later, a
\* call of the same process whose storage operations failed too, and
\* returns that call's conversation from the cache.
C4_Witness ==
  /\ lastCall.path = "cache_reuse"
  /\ "connect" \in lastCall.failed
  /\ lastCall.prevFailed
  /\ lastCall.sameProcess
  /\ lastCall.at - lastCall.prevAt = Minutes(5)
  /\ lastCall.session.conversationId = lastCall.prevConv
  /\ sessionCache[lastCall.session.sessionId] = lastCall.session

\* What a session object carries besides its ids and its two times.
SessionTags(s) ==
  [isNewSession |-> s.isNewSession,
   previousConversationId |-> s.previousConversationId]

\* C31: the session returned when the store could not be reached carries
\* a tag that a session read from the store does not carry: it differs in
\* its tags from the session a call that finds the token's stored record
\* returns.
C31_DegradedSessionTagged ==
  lastCall.path = "temp"
    => \A i \in FindSessions(globalSessions, lastCall.session.sessionId) :
         \A o \in FoundOutcomes(lastCall.session.sessionId, globalSessions[i],
                                sessionCache, globalSessions, now) :
           o.failed = {}
             => SessionTags(o.session) # SessionTags(lastCall.session)

\* C32: the result of a call is marked isNewSession when the call created
\* a conversation or rolled one over, and is not marked when the call
\* reused the conversation of the token.
C32_NewSessionMarkExact ==
  /\ lastCall.path \in {"created", "cache_rollover", "db_rollover"}
       => lastCall.session.isNewSession
  /\ lastCall.path \in {"cache_reuse", "db_reuse"}
       => ~ lastCall.session.isNewSession

\* C33: a call rolls the conversation of its token over only when the
\* session it looks at has been idle for more than SESSION_TIMEOUT: a
\* cached session idle for SESSION_TIMEOUT or less keeps its
\* conversationId, one idle for longer gets a new one, and a call that
\* reads the store rolls over only a record idle for more than
\* SESSION_TIMEOUT and reuses only a record idle for at most that.
C33_RolloverTestStrict ==
  \A sid \in SessionTokens \ {NullToken} :
    \A o \in getOrCreateSession(sid, sessionCache, globalSessions,
                                mongoConnected, now) :
      IF sid \in DOMAIN sessionCache
        THEN (o.session.conversationId # sessionCache[sid].conversationId)
               <=> (now - sessionCache[sid].lastActivity > SESSION_TIMEOUT)
        ELSE /\ o.path = "db_rollover"
                  => \E i \in FindSessions(globalSessions, sid) :
                       now - globalSessions[i].lastActivity > SESSION_TIMEOUT
             /\ o.path = "db_reuse"
                  => \E i \in FindSessions(globalSessions, sid) :
                       /\ now - globalSessions[i].lastActivity <= SESSION_TIMEOUT
                       /\ o.session.conversationId
                            = globalSessions[i].conversationId

\* A call made exactly SESSION_TIMEOUT after the previous call for the
\* token, in the same process, reused the cached conversation.
C33_Witness ==
  /\ lastCall.path = "cache_reuse"
  /\ lastCall.hadPrev
  /\ lastCall.sameProcess
  /\ lastCall.at - lastCall.prevAt = SESSION_TIMEOUT
  /\ lastCall.session.conversationId = lastCall.prevConv

(***************************************************************************)
(* Message deduplicator: properties.                                       *)
(***************************************************************************)

\* The latest call repeated, in the same process, a pair of texts already
\* submitted for the conversation it resolved.
RepeatedPair == lastPair.seenBefore

RepeatReportsDuplicate ==
  RepeatedPair => /\ lastPair.result.error = "duplicate_message"
                  /\ ~ lastPair.result.success
                  /\ ~ lastPair.saved
                  /\ ~ lastPair.posted

\* C5 (as claimed): processMessagePair called twice for the same
\* conversation with identical texts results in exactly one persisted
\* conversation write and exactly one forward; the second call reports
\* duplicate_message and performs no write and no forward.
C5_ExactlyOneWriteAndForward ==
  /\ \A k \in DOMAIN pairLog :
       pairLog[k].calls >= 2 => pairLog[k].saved = 1 /\ pairLog[k].posted = 1
  /\ RepeatReportsDuplicate

\* C5 (amended): processMessagePair called twice or more for the same
\* conversation with identical texts results in at most one persisted
\* conversation write and at most one forward; every call after the first
\* reports duplicate_message and performs no write and no forward.
C5_AtMostOneWriteAndForward ==
  /\ \A k \in DOMAIN pairLog :
       pairLog[k].calls >= 2 => pairLog[k].saved <= 1 /\ pairLog[k].posted <= 1
  /\ RepeatReportsDuplicate

\* The second call of a pair whose first call was written and forwarded.
C5_Witness ==
  /\ RepeatedPair
  /\ lastPair.result.error = "duplicate_message"
  /\ \E k \in DOMAIN pairLog :
       /\ k = <<lastPair.conv, lastPair.userMessage, lastPair.botResponse>>
       /\ pairLog[k].calls = 2
       /\ pairLog[k].saved = 1
       /\ pairLog[k].posted = 1

\* C35: processedMessages never holds more than PROCESSED_LIMIT
\* signatures; a call that records a signature appends it, and when that
\* makes the set exceed PROCESSED_LIMIT the PROCESSED_DROP earliest
\* signatures are dropped and the one just recorded stays.
C35_ProcessedBounded ==
  [][ /\ Len(processedMessages') <= PROCESSED_LIMIT
      /\ processedMessages' # processedMessages
           => /\ lastPair'.result.success
              /\ processedMessages'[Len(processedMessages')]
                   = << lastPair'.conv,
                        Substring(lastPair'.userMessage, USER_PREFIX),
                        Substring(lastPair'.botResponse, BOT_PREFIX) >>
              /\ IF Len(processedMessages) + 1 > PROCESSED_LIMIT
                   THEN processedMessages'
                          = SubSeq(processedMessages, PROCESSED_DROP + 1,
                                   Len(processedMessages))
                              \o << processedMessages'[Len(processedMessages')] >>
                   ELSE processedMessages'
                          = Append(processedMessages,
                                   processedMessages'[Len(processedMessages')])
    ]_vars

\* A call has just pushed the set over its limit: it now holds the later
\* half of what it held and the signature of the call.
C35_Witness ==
  /\ Len(processedMessages) = PROCESSED_LIMIT - PROCESSED_DROP + 1
  /\ lastPair.result.success
  /\ processedMessages[Len(processedMessages)][1] = lastPair.conv
  /\ processedMessages[1] = EarlierSignature(PROCESSED_LIMIT - PROCESSED_DROP)

\* C37: a call that POSTs the conversation records the signature of its
\* assistant messages in analyticsSentMessages exactly when the service
\* answered 2xx: a failed POST leaves the map as it was, and after a POST
\* answered 2xx the signature is in the map, whatever became of the
\* response body and of the id mappings.
C37_SentRecordedIffAccepted ==
  [][ (pairCalls' # pairCalls /\ lastPair'.posted)
        => IF lastPair'.how = "failed"
             THEN analyticsSentMessages' = analyticsSentMessages
             ELSE lastPair'.sig \in DOMAIN analyticsSentMessages' ]_vars

\* C36: analyticsSentMessages stays within a fixed size: it never holds
\* more than the entry that takes it over SENT_LIMIT.
C36_SentBounded ==
  Cardinality(DOMAIN analyticsSentMessages) <= SENT_LIMIT + 1

(***************************************************************************)
(* Identifier reconciler: properties.                                      *)
(***************************************************************************)

\* C6: once a mapping holding an id on either side is stored, every
\* feedback lookup by that id that consults message_id_mappings finds a
\* mapping that holds the id.
C6_LookupByEitherId ==
  ( /\ lastOp.op \in {"submit", "get"}
    /\ lastOp.storage = "ok"
    /\ lastOp.known # {} )
  => lastOp.mapping \in lastOp.known

\* The mappings the analytics forward stored for remote id.
ForwardedAs(known, id) ==
  {m \in known : /\ m.postgresqlId = id
                 /\ m.mongodbId[1] \in {"user-msg", "bot-msg"}}

\* C7: a feedback submitted under the remote id the forwarder returned for
\* a local message is resolved through the mapping to that local message:
\* the stored record and the result hold both ids.
C7_FeedbackByRemoteId ==
  ( /\ lastOp.op = "submit"
    /\ lastOp.storage = "ok"
    /\ ForwardedAs(lastOp.known, lastOp.id) # {} )
  => \E m \in ForwardedAs(lastOp.known, lastOp.id) :
       /\ {m.mongodbId, m.postgresqlId}
            \subseteq {lastOp.record.messageId, lastOp.record.postgresqlId}
       /\ m.postgresqlId = lastOp.postgresqlId

\* C8: when the store is reachable, submitMessageFeedback adds one
\* message_feedback record keyed by the id given and returns success,
\* with or without a mapping for the id and whatever the forward does.
C8_FeedbackAlwaysRecorded ==
  /\ ( lastOp.op = "submit" /\ lastOp.storage = "ok" )
     => /\ lastOp.success
        /\ lastOp.stored = 1
        /\ lastOp.record.messageId = lastOp.id
        /\ Len(message_feedback) > 0
        /\ message_feedback[Len(message_feedback)] = lastOp.record
  /\ \A id \in LocalPool \cup RemotePool, f \in ForwardOutcomes :
       \E o \in submitMessageFeedback(id, TRUE, World) :
         /\ o.forward = f
         /\ o.result.success
         /\ o.result.messageId = id
         /\ Len(o.world.feedback) = Len(message_feedback) + 1

\* A feedback for an id without mapping, whose forward failed, is stored.
C8_Witness ==
  /\ lastOp.op = "submit"
  /\ lastOp.known = {}
  /\ lastOp.mapping = NoMapping
  /\ lastOp.forward \in {"not_ok", "threw"}
  /\ lastOp.success
  /\ lastOp.stored = 1
  /\ message_feedback[Len(message_feedback)].messageId = lastOp.id

\* C9: no two records of message_id_mappings share a mongodbId or share a
\* postgresqlId.
C9_MappingsUnique ==
  \A i, j \in 1..Len(message_id_mappings) :
    i # j => /\ message_id_mappings[i].mongodbId
                  # message_id_mappings[j].mongodbId
             /\ message_id_mappings[i].postgresqlId
                  # message_id_mappings[j].postgresqlId

\* C30: a local id that has a mapping in message_id_mappings has one after
\* every later step: no write removes the last mapping of a local id.
C30_MappingsNeverLost ==
  [][ \A i \in 1..Len(message_id_mappings) :
        \E j \in 1..Len(message_id_mappings') :
          message_id_mappings'[j].mongodbId
            = message_id_mappings[i].mongodbId ]_vars

(***************************************************************************)
(* Response cache: properties.                                             *)
(***************************************************************************)
\* C10: a response stored under a key is returned unchanged by a lookup of
\* the key immediately afterwards; a lookup made RESPONSE_TTL or more after
\* the entry was stored is a miss, whether or not a sweep has removed the
\* entry; and whatever a lookup returns is the response as it was stored.
C10_RoundTripAndExpiry ==
  /\ \A k \in DOMAIN stored :
       /\ now = stored[k].timestamp
            => CacheLookup(responseCache, k, now) = stored[k].response
       /\ now - stored[k].timestamp >= RESPONSE_TTL
            => CacheLookup(responseCache, k, now) = NoResponse
       /\ CacheLookup(responseCache, k, now) # NoResponse
            => CacheLookup(responseCache, k, now) = stored[k].response
  /\ lastChat.outcome = "hit"
       => /\ lastChat.key \in DOMAIN stored
          /\ lastChat.served = stored[lastChat.key].response
          /\ lastChat.at - stored[lastChat.key].timestamp < RESPONSE_TTL

\* A request was answered from the cache at the very time its entry was
\* stored, the continuation of the storing request has run, and now the
\* entry is exactly RESPONSE_TTL old and still in the map, no sweep having
\* run: a lookup of it is a miss.
C10_Witness ==
  /\ lastChat.outcome = "hit"
  /\ lastChat.key \in DOMAIN responseCache
  /\ lastChat.at = responseCache[lastChat.key].timestamp
  /\ lastChat.served = responseCache[lastChat.key].response
  /\ backgroundRuns > 0
  /\ sweeps = 0
  /\ now - responseCache[lastChat.key].timestamp = RESPONSE_TTL
  /\ CacheLookup(responseCache, lastChat.key, now) = NoResponse

\* C24: when the continuation of a turn has obtained a remote id, the
\* cache entry written for the turn, if it is still in the cache, carries
\* that id in postgresqlMessageId.
C24_BackFillReachesEntry ==
  (lastBroadcast.variant = "part_003" /\ lastBroadcast.result.postgresqlId # NoId)
    => \A k \in DOMAIN responseCache :
         responseCache[k].eid = lastBroadcast.turn
           => responseCache[k].response.postgresqlMessageId
                = lastBroadcast.result.postgresqlId

\* Request a repeats request b: same session token, same text up to case
\* and surrounding whitespace, same language, same attachment counts.
Resubmits(a, b) ==
  /\ a.token # NullToken
  /\ a.token = b.token
  /\ a.userMessage # NullText /\ b.userMessage # NullText
  /\ Trim(ToLowerCase(a.userMessage)) = Trim(ToLowerCase(b.userMessage))
  /\ a.language = b.language
  /\ Len(a.images) = Len(b.images)
  /\ Len(a.files) = Len(b.files)

\* The reply to request b was cached less than RESPONSE_TTL ago.
CachedWithinTtl(b) ==
  \E k \in DOMAIN askedFor :
    askedFor[k] = b /\ now - stored[k].timestamp < RESPONSE_TTL

\* C25: a request that repeats a request whose reply was cached less than
\* one hour ago is served from the cache: it does not go on to the model,
\* and the step that serves it returns the cached payload and leaves the
\* chat history, the scheduled continuations and the cache as they are.
C25_ResubmissionServedFromCache ==
  [][ /\ \A r \in inflight' \ inflight :
           ~ \E k \in DOMAIN askedFor :
               Resubmits(r.request, askedFor[k]) /\ CachedWithinTtl(askedFor[k])
      /\ (chatCalls' # chatCalls /\ lastChat'.outcome = "hit")
           => /\ lastChat'.served = stored[lastChat'.key].response
              /\ UNCHANGED <<sessions, pending, inflight, entrySeq,
                             responseCache>> ]_vars

\* The reply to "hi" was cached, and "HI " sent later within the hour by
\* the same session was answered from the cache with that reply.
C25_Witness ==
  /\ lastChat.outcome = "hit"
  /\ lastChat.key \in DOMAIN askedFor
  /\ lastChat.request.userMessage # askedFor[lastChat.key].userMessage
  /\ Resubmits(lastChat.request, askedFor[lastChat.key])
  /\ lastChat.at > stored[lastChat.key].timestamp
  /\ lastChat.served = stored[lastChat.key].response

\* C26: a run of the sweep removes exactly the entries that are older than
\* RESPONSE_TTL, leaves the others as they are, and removes no entry that a
\* lookup at the time of the sweep would serve.
C26_SweepRemovesExactlyExpired ==
  [][ sweeps' # sweeps
        => /\ DOMAIN responseCache'
                = {k \in DOMAIN responseCache :
                     now - responseCache[k].timestamp <= RESPONSE_TTL}
           /\ \A k \in DOMAIN responseCache' :
                responseCache'[k] = responseCache[k]
           /\ \A k \in DOMAIN responseCache \ DOMAIN responseCache' :
                CacheLookup(responseCache, k, now) = NoResponse ]_vars

\* The sweep has just run over two entries: the one older than RESPONSE_TTL
\* is gone, the one exactly RESPONSE_TTL old is still in the map.
C26_Witness ==
  /\ sweeps > 0
  /\ \E a \in DOMAIN stored \ DOMAIN responseCache :
       now - stored[a].timestamp > RESPONSE_TTL
  /\ \E b \in DOMAIN responseCache :
       now - responseCache[b].timestamp = RESPONSE_TTL

C39_OneConversationPerTurn ==
  \A i \in 1..Len(lastBroadcast.convs) :
    lastBroadcast.convs[i] = lastBroadcast.convs[1]

\* C38: when processMessagePair succeeded with a remote id, the
\* broadcastConversation call that made it returns success with that id,
\* whether pusher.trigger resolved or threw.
C38_PublishFailureHarmless ==
  ( /\ lastBroadcast.variant # "none"
    /\ lastBroadcast.gate = ""
    /\ lastBroadcast.remote # NoId )
    => /\ lastBroadcast.result.success
       /\ lastBroadcast.result.postgresqlId = lastBroadcast.remote

(***************************************************************************)
(* Cache keys: properties.                                                 *)
(***************************************************************************)
\* Two requests ask the same thing for the same client: same token (same
\* client when there is none), same normalized text, same language, same
\* attachments.
SameRequest(a, b) ==
  /\ a.token = b.token
  /\ (a.token = NullToken => a.client = b.client)
  /\ NormalizedInput(a.userMessage) = NormalizedInput(b.userMessage)
  /\ DetectedLanguage(a.language, a.userMessage)
       = DetectedLanguage(b.language, b.userMessage)
  /\ a.images = b.images
  /\ a.files = b.files

\* C11: a request answered from the cache is answered with the payload of
\* a request of the same session (the same client when it carries no
\* session identifier), normalized text, language and attachments: requests
\* that differ in one of these never share a cache key.
C11_NoKeyCollision ==
  lastChat.outcome = "hit"
    => SameRequest(lastChat.request, askedFor[lastChat.key])

\* C34: a /chat request answered for a token that has a session in the
\* session cache, from the model or from the response cache, leaves that
\* session with lastActivity at the time of the answer; and no step
\* removes an entry from the session cache.
C34_EveryMessageBumpsActivity ==
  [][ /\ ( /\ chatCalls' # chatCalls
           /\ lastChat'.outcome \in {"hit", "miss"}
           /\ lastChat'.request.token \in DOMAIN sessionCache )
         => sessionCache'[lastChat'.request.token].lastActivity = now
      /\ DOMAIN sessionCache \subseteq DOMAIN sessionCache' ]_vars

(***************************************************************************)
(* Assembler: properties.                                                  *)
(***************************************************************************)
\* The latest call was given a raw pair: both texts, no message list.
RawPair ==
  /\ lastNorm.called
  /\ ~ lastNorm.input.hasMessages
  /\ ~ Falsy(lastNorm.input.userMessage)
  /\ ~ Falsy(lastNorm.input.botResponse)

\* C12: normalizeConversation applied to a raw pair with no message list
\* yields exactly two messages, the first of role user with the user text,
\* the second of role assistant with the bot text and a strictly greater
\* timestamp, and a conversation id that is not empty.
C12_RawPairNormalized ==
  RawPair =>
    LET out == lastNorm.output
    IN  /\ Len(out.messages) = 2
        /\ out.messages[1].role = "user"
        /\ out.messages[1].content = lastNorm.input.userMessage
        /\ out.messages[2].role = "assistant"
        /\ out.messages[2].content = lastNorm.input.botResponse
        /\ out.messages[2].timestamp > out.messages[1].timestamp
        /\ out.id # NoConv

\* A raw pair without id and without startedAt was normalized at a time
\* after the start: the id was generated and the timestamps come from the
\* clock.
C12_Witness ==
  /\ RawPair
  /\ lastNorm.input.id = NoConv
  /\ lastNorm.input.startedAt = NoTime
  /\ lastNorm.at > 0
  /\ Len(lastNorm.output.messages) = 2
  /\ lastNorm.output.messages[1].timestamp = lastNorm.at
  /\ lastNorm.output.messages[2].timestamp = lastNorm.at + 1

\* The listed messages of the latest call carry ids, all different.
ListedWithIds ==
  /\ lastNorm.called
  /\ lastNorm.input.hasMessages
  /\ \A i \in 1..Len(lastNorm.input.messages) :
       /\ lastNorm.input.messages[i].id # NoId
       /\ \A j \in 1..Len(lastNorm.input.messages) :
            lastNorm.input.messages[i].id = lastNorm.input.messages[j].id
              => i = j

\* Where a returned message stood before the sort: a listed message at its
\* index in the list, a message made from userMessage or botResponse
\* after the list.
InputPosition(m) ==
  IF \E i \in 1..Len(lastNorm.input.messages) :
       lastNorm.input.messages[i].id = m.id
    THEN CHOOSE i \in 1..Len(lastNorm.input.messages) :
           lastNorm.input.messages[i].id = m.id
    ELSE Len(lastNorm.input.messages) + 1

\* C29: the messages normalizeConversation returns are in ascending order
\* of timestamp, and messages of equal timestamp are in the order they had
\* in the input.
C29_SortedAndStable ==
  lastNorm.called =>
    LET out == lastNorm.output.messages
    IN  /\ \A i, j \in 1..Len(out) :
             i < j => out[i].timestamp <= out[j].timestamp
        /\ ListedWithIds =>
             \A i, j \in 1..Len(out) :
               (i < j /\ out[i].timestamp = out[j].timestamp)
                 => InputPosition(out[i]) <= InputPosition(out[j])

\* Three listed messages came in the order 7, 7, 2 with a userMessage that
\* takes the timestamp 7 as well: the result has the message of time 2
\* first, then the two listed messages of time 7 in their input order,
\* then the message made from userMessage.
C29_Witness ==
  /\ ListedWithIds
  /\ Len(lastNorm.input.messages) = 3
  /\ lastNorm.input.messages[1].timestamp > lastNorm.input.messages[3].timestamp
  /\ Len(lastNorm.output.messages) = 4
  /\ lastNorm.output.messages[1].id = lastNorm.input.messages[3].id
  /\ lastNorm.output.messages[2].id = lastNorm.input.messages[1].id
  /\ lastNorm.output.messages[3].id = lastNorm.input.messages[2].id
  /\ lastNorm.output.messages[3].timestamp = lastNorm.output.messages[4].timestamp
  /\ lastNorm.output.messages[4].role = "user"

\* C27: a message that carries the role "user" or "assistant" is given
\* that role by normalizeMessage, whatever its sender and type say.
C27_ExplicitRoleWins ==
  (lastMessage.called /\ lastMessage.input.role \in {"user", "assistant"})
    => lastMessage.output.role = lastMessage.input.role

\* C28: the role normalizeMessage returns is "user" or "assistant", and the
\* type it returns is "user" when the role is "user" and "bot" otherwise.
C28_RoleVocabulary ==
  lastMessage.called
    => /\ lastMessage.output.role \in {"user", "assistant"}
       /\ lastMessage.output.type
            = (IF lastMessage.output.role = "user" THEN "user" ELSE "bot")

(***************************************************************************)
(* Serving paths: properties.                                              *)
(***************************************************************************)
\* C13: in every serving path the reply of a turn is sent before the
\* persistence, forwarding and broadcast of the turn begin: the log of a
\* turn never shows the broadcast without an earlier reply.
C13_ReplyBeforeBroadcast ==
  \A turn \in DOMAIN turns :
    \A i \in 1..Len(turns[turn]) :
      turns[turn][i] = "broadcast"
        => \E j \in 1..(i - 1) : turns[turn][j] = "reply"

\* C14: when sendConversationToAnalytics is reached with assistant messages
\* (content prefix and timestamp) whose forward already obtained a remote
\* id in this process, no POST is made and that remote id is returned.
C14_ForwardShortCircuits ==
  lastPair.forwardedBefore
    => /\ ~ lastPair.posted
       /\ lastPair.forward.success
       /\ lastPair.forward.deduplicated
       /\ lastPair.forward.postgresqlId = lastPair.earlier
       /\ lastPair.result.postgresqlId = lastPair.earlier

\* A second pair with the same assistant text in the same millisecond is
\* accepted by the first gate, stored, and answered from the map.
C14_Witness ==
  /\ lastPair.forwardedBefore
  /\ lastPair.result.success
  /\ lastPair.saved
  /\ ~ lastPair.posted
  /\ lastPair.earlier # NoId
  /\ lastPair.result.postgresqlId = lastPair.earlier

\* C15: when the forward fails (the fetch throws, the status is not 2xx, or
\* the response cannot be parsed), sendConversationToAnalytics returns a
\* null remote id without raising, processMessagePair still reports
\* success with postgresqlId null, and the conversations collection is as
\* saveConversationToMongoDB left it.
C15_ForwardFailureTolerated ==
  lastPair.how \in {"failed", "unparseable"}
    => /\ lastPair.posted
       /\ lastPair.forward.postgresqlId = NoId
       /\ lastPair.result.success
       /\ lastPair.result.error = ""
       /\ lastPair.result.postgresqlId = NoId
       /\ lastPair.result.botMessageId # NoId
       /\ conversations = lastPair.afterSave

\* The conversation was saved, the POST was made, and the forward failed.
C15_Witness ==
  /\ lastPair.how = "failed"
  /\ lastPair.saved
  /\ lastPair.posted
  /\ ~ lastPair.forward.success
  /\ lastPair.result.success
  /\ lastPair.result.postgresqlId = NoId
  /\ \E i \in 1..Len(conversations) : conversations[i].id = lastPair.conv

\* C16: processMessagePair called with a missing user text or a missing bot
\* text (null, undefined or empty) returns incomplete_message_pair and has
\* no side effect.
C16_MissingTextRejected ==
  (pairCalls > 0 /\ (Falsy(lastPair.userMessage) \/ Falsy(lastPair.botResponse)))
    => /\ ~ lastPair.result.success
       /\ lastPair.result.error = "incomplete_message_pair"
       /\ lastPair.untouched
       /\ ~ lastPair.saved
       /\ ~ lastPair.posted

\* C18: in every pair processMessagePair builds, the assistant message is
\* stamped strictly later than the user message, and the conversation
\* handed to storage lists the user message first.
C18_AssistantAfterUser ==
  lastPair.result.success
    => /\ Len(lastPair.built) = 2
       /\ lastPair.built[1].role = "user"
       /\ lastPair.built[1].id = lastPair.result.userMessageId
       /\ lastPair.built[2].role = "assistant"
       /\ lastPair.built[2].id = lastPair.result.botMessageId
       /\ lastPair.built[2].timestamp > lastPair.built[1].timestamp

\* A pair was built at a time after the start.
C18_Witness ==
  /\ lastPair.result.success
  /\ Len(lastPair.built) = 2
  /\ lastPair.built[1].content = lastPair.userMessage
  /\ lastPair.built[2].content = lastPair.botResponse
  /\ lastPair.built[1].timestamp > 0
  /\ lastPair.built[2].timestamp = lastPair.built[1].timestamp + 1

\* C19: after any sequence of turns on a conversation, their continuations
\* interleaving or not, the messages of every stored conversation document
\* are in strictly ascending order of timestamp.
C19_StoredMessagesAscending ==
  \A d \in 1..Len(conversations) :
    \A i \in 1..(Len(conversations[d].messages) - 1) :
      conversations[d].messages[i].timestamp
        < conversations[d].messages[i + 1].timestamp

(***************************************************************************)
(* Concurrent session calls: properties.                                   *)
(***************************************************************************)
\* C20: when a call finds its token cached and timed out and rolls the
\* conversation over, every other call for the token begun within the
\* timeout after it, whichever of them completes first, reuses the entry
\* the rollover put into the cache: it does not roll over again, and it
\* returns the same new conversationId.
C20_OneRolloverPerBurst ==
  \A i, j \in 1..Len(sessionLog) :
    ( /\ i # j
      /\ sessionLog[i].fsid = sessionLog[j].fsid
      /\ sessionLog[i].path = "cache_rollover"
      /\ sessionLog[i].n < sessionLog[j].n
      /\ sessionLog[j].at - sessionLog[i].at <= SESSION_TIMEOUT )
      => /\ sessionLog[j].path = "cache_reuse"
         /\ sessionLog[j].conv = sessionLog[i].conv

\* Three calls at one instant on a cached, timed-out token: the first rolled
\* over, and a later one completed before the first one's write settled.
C20_Witness ==
  \E i, j, k \in 1..Len(sessionLog) :
    /\ i < j /\ k # i /\ k # j
    /\ sessionLog[j].path = "cache_rollover"
    /\ sessionLog[i].path = "cache_reuse"
    /\ sessionLog[k].path = "cache_reuse"
    /\ sessionLog[i].at = sessionLog[j].at
    /\ sessionLog[k].at = sessionLog[j].at
    /\ sessionLog[i].conv = sessionLog[j].conv
    /\ sessionLog[k].conv = sessionLog[j].conv

\* Two logged calls for one token that ran concurrently (the later one to
\* complete began before the earlier one completed), both begun when the
\* token was neither cached nor stored, both without a storage failure.
ConcurrentFreshCalls(i, j) ==
  /\ i < j
  /\ sessionLog[i].fsid = sessionLog[j].fsid
  /\ sessionLog[j].seen < i
  /\ sessionLog[i].fresh /\ sessionLog[j].fresh
  /\ sessionLog[i].failed = {} /\ sessionLog[j].failed = {}

\* C21: concurrent getOrCreateSession calls for a token that is neither
\* cached nor stored return one conversationId, and at most one session
\* record for the token is inserted.
C21_OneConversationPerFreshToken ==
  \A i, j \in 1..Len(sessionLog) :
    ConcurrentFreshCalls(i, j)
      => /\ sessionLog[i].conv = sessionLog[j].conv
         /\ Cardinality(FindSessions(globalSessions, sessionLog[i].fsid)) <= 1

\* C22: of two processMessagePair calls in flight together for one client
\* token with identical texts, at most one passes the dedup gate.
C22_OneOfTwinPairsPasses ==
  \A i, j \in 1..Len(gateLog) :
    ( /\ i < j
      /\ gateLog[j].seen < i
      /\ gateLog[i].sid = gateLog[j].sid
      /\ gateLog[i].userMessage = gateLog[j].userMessage
      /\ gateLog[i].botResponse = gateLog[j].botResponse )
      => ~ (gateLog[i].passed /\ gateLog[j].passed)

\* C23: after any interleaving of saveConversationToMongoDB calls the
\* conversations collection holds at most one document per conversation
\* id.
C23_OneDocumentPerConversation ==
  \A d, e \in 1..Len(conversations) :
    conversations[d].id = conversations[e].id => d = e

(***************************************************************************)
(* The broadcast layer: properties.                                        *)
(***************************************************************************)
\* C17: in every server variant, a pair that the dedup gate of
\* processMessagePair rejects is reported by broadcastConversation as
\* already handled (success, marked deduplicated), never as a failure.
C17_DuplicateReportedAsHandled ==
  lastBroadcast.gate = "duplicate_message"
    => /\ lastBroadcast.result.success
       /\ lastBroadcast.result.error = "deduplicated"

====
